---- MODULE Spec2Model ----
(***************************************************************************)
(* Adaptive synchronization and scheduling engine of the missing-persons   *)
(* data pipeline (data_pipeline/utils):                                    *)
(*   - monitoring_alerting.py   alert creation, cooldown, rate limit       *)
(*   - incremental_updater.py   delta synchronizer and sync queue          *)
(*   - intelligent_scheduler.py pattern analysis and adaptive schedule     *)
(* Each component keeps its state in its own SQLite file; a table is a     *)
(* set or a sequence of rows.  Every component has its own specification   *)
(* (SpecAlert; SpecSync and SpecQueue; SpecSched and SpecRecommend); the    *)
(* variables of the other components stay at their initial value.  Time is *)
(* the wall clock in seconds.                                              *)
(***************************************************************************)
EXTENDS Integers, Sequences, FiniteSets, TLC

VARIABLES
    now,                  \* datetime.now(), seconds
    ticks,                \* number of times the clock was advanced
    \* ---- monitoring.db (monitoring_alerting.py)
    alerts,               \* table alerts: set of rows, id is the primary key
    alert_notifications,  \* table alert_notifications: set of rows
    create_alert_pc,      \* per caller: position inside create_alert
    create_alert_arg,     \* per caller: the Alert passed to create_alert
    alert_calls,          \* number of create_alert calls begun
    \* ---- incremental_sync.db and app.db (incremental_updater.py)
    sync_operations,      \* table sync_operations: sequence of rows, id = index
    source_sync_metadata, \* table source_sync_metadata: source -> row or NoRow
    run_sync,             \* run_incremental_sync: position, locals, stats
    worker,               \* per process: position and locals of process_sync_queue
    main_store,           \* app.db: the operations whose effect is committed
    executions,           \* per row of sync_operations: times it was executed
    \* ---- intelligent_scheduler.db (intelligent_scheduler.py)
    source_metrics_history,   \* table source_metrics_history: sequence of rows
    schedule_recommendations, \* table schedule_recommendations: sequence of rows
    update_run,               \* update_all_schedules: position, locals, stats
    source_metrics,           \* a SourceMetrics given to calculate_adaptive_frequency
    recommendation,           \* the ScheduleRecommendation it returned, or NoRow
    \* ---- data_staleness_state.json and the data files (data_staleness_monitor.py)
    staleness,            \* state file, monitor object, file times, checks made
    \* ---- pipeline.py and processors/validation.py
    collection,           \* _collect_from_all_sources: futures, position, all_records
    dedup,                \* _deduplicate_records: the batch, the groups, the result
    \* ---- incremental_updater.py, one record analysed
    analysis,             \* analyze_record_changes: the two records and its result
    \* ---- processors/validation.py, utils/database.py, monitoring threads
    validation,           \* batch_validate: the batch, position, results
    database,             \* missing_persons.db: table missing_persons, upserts made
    monitoring            \* start_monitoring / stop_monitoring: flag and threads

alertVars == <<alerts, alert_notifications, create_alert_pc, create_alert_arg, alert_calls>>
syncVars == <<sync_operations, source_sync_metadata, run_sync, worker, main_store, executions>>
schedVars == <<source_metrics_history, schedule_recommendations, update_run,
               source_metrics, recommendation>>
restVars == <<staleness, collection, dedup, analysis>>
moreVars == <<validation, database, monitoring>>
vars == <<now, ticks, alertVars, syncVars, schedVars, restVars, moreVars>>

NoRow == [none |-> TRUE]

Max(a, b) == IF a >= b THEN a ELSE b
Min(a, b) == IF a <= b THEN a ELSE b

RECURSIVE SumSeq(_)
SumSeq(s) == IF s = <<>> THEN 0 ELSE Head(s) + SumSeq(Tail(s))

(***************************************************************************)
(*                       monitoring_alerting.py                            *)
(***************************************************************************)

\* monitoring_config (seconds are derived from the configured minutes)
alert_cooldown_minutes == 30
max_alerts_per_hour == 10

\* Bounds of the alert model
MaxAlertCalls == 3
MaxAlertTicks == 2

\* The threads and processes that call create_alert on the same monitoring.db:
\* the background monitoring loop and a foreground caller (record_metric, CLI).
AlertCallers == {"monitoring_thread", "main_thread"}

\* Metric names given to record_metric and the sources they are recorded for.
MetricNames == {"cpu_usage_percent", "memory_usage_percent", "data_freshness_hours"}
AlertSources == {"system_monitor"}
AlertSeverities == {"critical"}
notification_channels == <<"email", "webhook">>
AlertTickSteps == {1, 1799, 1800}

\* The keywords of determine_alert_type that occur in a metric name
\* (the `in` substring tests of the source, tabulated for MetricNames).
KeywordsIn(metric_name) ==
    CASE metric_name = "cpu_usage_percent" -> {"cpu"}
      [] metric_name = "memory_usage_percent" -> {"memory"}
      [] metric_name = "disk_usage_percent" -> {"disk"}
      [] metric_name = "data_freshness_hours" -> {"freshness"}
      [] metric_name = "error_rate_percent" -> {"error"}
      [] OTHER -> {}

determine_alert_type(metric_name) ==
    LET k == KeywordsIn(metric_name) IN
    IF "staleness" \in k \/ "freshness" \in k THEN "data_staleness"
    ELSE IF "error" \in k THEN "high_error_rate"
    ELSE IF "response_time" \in k \/ "performance" \in k THEN "performance_degradation"
    ELSE IF "sync" \in k \/ "failure" \in k THEN "sync_failure"
    ELSE IF "urgent" \in k THEN "urgent_case_detected"
    ELSE IF "cpu" \in k \/ "memory" \in k \/ "disk" \in k THEN "system_resource"
    ELSE "performance_degradation"

\* The Alert that check_metric_thresholds builds at time t.
NewAlert(metric_name, source, severity, t) ==
    [id |-> <<metric_name, source, t>>,
     alert_type |-> determine_alert_type(metric_name),
     severity |-> severity,
     source |-> source,
     status |-> "active",
     created_at |-> t]

\* SELECT COUNT(*) ... WHERE alert_type = ? AND source = ?
\*   AND status IN ('active','acknowledged') AND created_at >= cooldown_time
is_duplicate_alert(new_alert, t) ==
    LET cooldown_time == t - alert_cooldown_minutes * 60 IN
    Cardinality({a \in alerts : /\ a.alert_type = new_alert.alert_type
                                /\ a.source = new_alert.source
                                /\ a.status \in {"active", "acknowledged"}
                                /\ a.created_at >= cooldown_time}) > 0

\* SELECT COUNT(*) FROM alerts WHERE created_at >= one_hour_ago
is_rate_limited(alert, t) ==
    LET one_hour_ago == t - 1 * 3600 IN
    Cardinality({a \in alerts : a.created_at >= one_hour_ago}) >= max_alerts_per_hour

\* create_alert returns to its caller c; the Alert object is dropped.
Return(c) ==
    /\ create_alert_pc' = [create_alert_pc EXCEPT ![c] = "idle"]
    /\ create_alert_arg' = [create_alert_arg EXCEPT ![c] = NoRow]

\* create_alert, entry: the caller has built the Alert (created_at = now).
CreateAlertBegin(c) ==
    /\ create_alert_pc[c] = "idle"
    /\ alert_calls < MaxAlertCalls
    /\ \E m \in MetricNames, s \in AlertSources, sev \in AlertSeverities :
          create_alert_arg' = [create_alert_arg EXCEPT ![c] = NewAlert(m, s, sev, now)]
    /\ create_alert_pc' = [create_alert_pc EXCEPT ![c] = "is_duplicate_alert"]
    /\ alert_calls' = alert_calls + 1
    /\ UNCHANGED <<now, ticks, alerts, alert_notifications, syncVars, schedVars, restVars, moreVars>>

\* create_alert, `if self.is_duplicate_alert(alert): return False`
CreateAlertCheckDuplicate(c) ==
    /\ create_alert_pc[c] = "is_duplicate_alert"
    /\ IF is_duplicate_alert(create_alert_arg[c], now)
       THEN Return(c)
       ELSE /\ create_alert_pc' = [create_alert_pc EXCEPT ![c] = "is_rate_limited"]
            /\ UNCHANGED create_alert_arg
    /\ UNCHANGED <<now, ticks, alerts, alert_notifications, alert_calls, syncVars, schedVars,
            restVars, moreVars>>

\* create_alert, `if self.is_rate_limited(alert): return False`
CreateAlertCheckRate(c) ==
    /\ create_alert_pc[c] = "is_rate_limited"
    /\ IF is_rate_limited(create_alert_arg[c], now)
       THEN Return(c)
       ELSE /\ create_alert_pc' = [create_alert_pc EXCEPT ![c] = "insert"]
            /\ UNCHANGED create_alert_arg
    /\ UNCHANGED <<now, ticks, alerts, alert_notifications, alert_calls, syncVars, schedVars,
            restVars, moreVars>>

\* The rows of alerts after INSERT INTO alerts: a row with the same primary
\* key makes the INSERT raise, and the table is left as it was.
InsertAlert(rows, alert) ==
    IF \E a \in rows : a.id = alert.id THEN rows ELSE rows \cup {alert}

\* create_alert, INSERT INTO alerts + commit; an IntegrityError is caught by
\* the handler's `except` and create_alert returns False.
CreateAlertInsert(c) ==
    /\ create_alert_pc[c] = "insert"
    /\ alerts' = InsertAlert(alerts, create_alert_arg[c])
    /\ IF \E a \in alerts : a.id = create_alert_arg[c].id
       THEN Return(c)
       ELSE /\ create_alert_pc' = [create_alert_pc EXCEPT ![c] = "send_alert_notifications"]
            /\ UNCHANGED create_alert_arg
    /\ UNCHANGED <<now, ticks, alert_notifications, alert_calls, syncVars, schedVars, restVars, moreVars>>

\* self.notification_handlers: the channels that have a handler
notification_handlers == {"email", "webhook", "console"}

\* What calling a handler can do: return True, return False, or raise
HandlerOutcomes == {"True", "False", "raises"}

\* record_notification_attempt: the row INSERTed into alert_notifications
record_notification_attempt(rows, alert_id, channel, success) ==
    rows \cup {[alert_id |-> alert_id,
                notification_channel |-> channel,
                notification_status |-> IF success THEN "success" ELSE "failed"]}

\* A send_alert_notifications that gives up at the first channel whose
\* handler does not return True.
RECURSIVE send_alert_notifications_until_failure(_, _, _, _)
send_alert_notifications_until_failure(rows, alert, channels, outcome) ==
    IF channels = <<>> THEN rows
    ELSE LET channel == Head(channels) IN
         IF channel \notin notification_handlers
         THEN send_alert_notifications_until_failure(rows, alert, Tail(channels), Tail(outcome))
         ELSE IF Head(outcome) = "True"
         THEN send_alert_notifications_until_failure(
                  record_notification_attempt(rows, alert.id, channel, TRUE),
                  alert, Tail(channels), Tail(outcome))
         ELSE record_notification_attempt(rows, alert.id, channel, FALSE)

\* send_alert_notifications: the rows of alert_notifications after the loop
\* over `channels`, outcome[i] being what the handler of the i-th channel
\* does.  A channel without a handler is only logged; a handler that raises
\* is caught inside the loop and recorded as failed.  The INSERT of
\* record_notification_attempt is taken to go through.
RECURSIVE send_alert_notifications(_, _, _, _)
send_alert_notifications(rows, alert, channels, outcome) ==
    IF channels = <<>> THEN rows
    ELSE LET channel == Head(channels) IN
         IF channel \notin notification_handlers
         THEN send_alert_notifications(rows, alert, Tail(channels), Tail(outcome))
         ELSE send_alert_notifications(
                  record_notification_attempt(rows, alert.id, channel, Head(outcome) = "True"),
                  alert, Tail(channels), Tail(outcome))

\* create_alert, self.send_alert_notifications(alert), then `return True`
CreateAlertNotify(c) ==
    /\ create_alert_pc[c] = "send_alert_notifications"
    /\ \E outcome \in [1..Len(notification_channels) -> HandlerOutcomes] :
          alert_notifications' =
              send_alert_notifications(alert_notifications, create_alert_arg[c],
                                       notification_channels, outcome)
    /\ Return(c)
    /\ UNCHANGED <<now, ticks, alerts, alert_calls, syncVars, schedVars, restVars, moreVars>>

\* The wall clock advances.
AlertTick ==
    /\ ticks < MaxAlertTicks
    /\ \E d \in AlertTickSteps : now' = now + d
    /\ ticks' = ticks + 1
    /\ UNCHANGED <<alertVars, syncVars, schedVars, restVars, moreVars>>

AlertInit ==
    /\ alerts = {}
    /\ alert_notifications = {}
    /\ create_alert_pc = [c \in AlertCallers |-> "idle"]
    /\ create_alert_arg = [c \in AlertCallers |-> NoRow]
    /\ alert_calls = 0

(***************************************************************************)
(*                        incremental_updater.py                           *)
(***************************************************************************)

\* A Python str is a sequence of one-character strings; None and numbers are
\* tagged, so that isinstance(v, str) can be decided.
None == [t |-> "none"]
Str(chars) == [t |-> "str", v |-> chars]
Num(n) == [t |-> "num", v |-> n]
IsStr(v) == v.t = "str"

\* dict.get(key) with the default None
Get(d, key) == IF key \in DOMAIN d THEN d[key] ELSE None

\* str.lower() on one character
LowerChar(c) ==
    CASE c = "A" -> "a" [] c = "B" -> "b" [] c = "C" -> "c" [] c = "D" -> "d"
      [] c = "E" -> "e" [] c = "F" -> "f" [] c = "G" -> "g" [] c = "H" -> "h"
      [] c = "I" -> "i" [] c = "J" -> "j" [] c = "K" -> "k" [] c = "L" -> "l"
      [] c = "M" -> "m" [] c = "N" -> "n" [] c = "O" -> "o" [] c = "P" -> "p"
      [] c = "Q" -> "q" [] c = "R" -> "r" [] c = "S" -> "s" [] c = "T" -> "t"
      [] c = "U" -> "u" [] c = "V" -> "v" [] c = "W" -> "w" [] c = "X" -> "x"
      [] c = "Y" -> "y" [] c = "Z" -> "z" [] OTHER -> c

lower(chars) == [i \in 1..Len(chars) |-> LowerChar(chars[i])]

\* str.strip(): leading and trailing blanks removed
RECURSIVE lstrip(_)
lstrip(chars) ==
    IF chars # <<>> /\ Head(chars) = " " THEN lstrip(Tail(chars)) ELSE chars
RECURSIVE rstrip(_)
rstrip(chars) ==
    IF chars # <<>> /\ chars[Len(chars)] = " "
    THEN rstrip(SubSeq(chars, 1, Len(chars) - 1)) ELSE chars
strip(chars) == rstrip(lstrip(chars))

\* `sub in s` on strings
Contains(sub, chars) ==
    \E i \in 0..(Len(chars) - Len(sub)) : SubSeq(chars, i + 1, i + Len(sub)) = sub

\* str(v) for a str or None (the values a status field takes)
PyStr(v) == IF IsStr(v) THEN v.v ELSE <<"N", "o", "n", "e">>

\* calculate_data_hash: the normalized projection that is serialized with
\* sorted keys and hashed.  SHA-256 is taken to be injective, so the hash is
\* represented by the projection it is computed from.
HashExcluded == {"id", "created_at", "updated_at", "last_sync"}
\* A calculate_data_hash that serializes the values as they are, without
\* strip().lower()
calculate_data_hash_as_is(data) ==
    [k \in {f \in DOMAIN data : data[f] # None /\ f \notin HashExcluded} |-> data[k]]

calculate_data_hash(data) ==
    [k \in {f \in DOMAIN data : data[f] # None /\ f \notin HashExcluded} |->
        IF IsStr(data[k]) THEN Str(lower(strip(data[k].v))) ELSE data[k]]

\* sync_config
batch_size == 500
priority_threshold == 3
\* Confidence is kept in units of 1/3000 (thirds of a thousandth), so that
\* matches / 3 * 0.1 is exact: Conf(800) is 0.8.
Conf(thousandths) == 3 * thousandths
min_confidence_threshold == Conf(700)

\* calculate_update_priority
calculate_update_priority(source_record, existing_record) ==
    LET source_status == lower(PyStr(IF "status" \in DOMAIN source_record
                                     THEN source_record["status"] ELSE Str(<<>>)))
        existing_status == lower(PyStr(IF "status" \in DOMAIN existing_record
                                       THEN existing_record["status"] ELSE Str(<<>>)))
        contact_fields == {"phone", "email", "contact_info"}
        location_fields == {"city", "state", "latitude", "longitude"}
    IN
    IF source_status # existing_status
       /\ (Contains(<<"f","o","u","n","d">>, source_status)
           \/ Contains(<<"d","e","c","e","a","s","e","d">>, source_status))
    THEN 1
    ELSE IF source_status # existing_status
            /\ Contains(<<"a","c","t","i","v","e">>, source_status)
    THEN 2
    ELSE IF \E f \in contact_fields : Get(source_record, f) # Get(existing_record, f)
    THEN 2
    ELSE IF \E f \in location_fields : Get(source_record, f) # Get(existing_record, f)
    THEN 3
    ELSE 4

\* calculate_update_confidence; updated_at / last_modified hold a timestamp
\* (Num) when datetime.fromisoformat accepts them, a Str when it raises.
calculate_update_confidence(source_record, existing_record) ==
    LET source_updated == IF "updated_at" \in DOMAIN source_record
                          THEN source_record["updated_at"]
                          ELSE Get(source_record, "last_modified")
        existing_updated == IF "updated_at" \in DOMAIN existing_record
                            THEN existing_record["updated_at"]
                            ELSE Get(existing_record, "last_modified")
        newer == /\ source_updated # None /\ existing_updated # None
                 /\ source_updated.t = "num" /\ existing_updated.t = "num"
                 /\ source_updated.v > existing_updated.v
        identity_fields == {"name", "age", "gender"}
        matches == Cardinality({f \in identity_fields :
                                   Get(source_record, f) = Get(existing_record, f)})
    IN Min(Conf(800) + (IF newer THEN Conf(150) ELSE 0) + matches * 100, Conf(1000))

\* case_id = str(record.get('id', record.get('case_number', 'unknown')))
CaseIdOf(record) ==
    IF "id" \in DOMAIN record THEN PyStr(record["id"])
    ELSE IF "case_number" \in DOMAIN record THEN PyStr(record["case_number"])
    ELSE <<"u","n","k","n","o","w","n">>

\* analyze_record_changes: the SyncRecord for a fetched record; existing_record
\* is None when the case is not in the store.
analyze_record_changes(source_record, existing_record) ==
    LET source_hash == calculate_data_hash(source_record) IN
    IF existing_record = None
    THEN [case_id |-> CaseIdOf(source_record), operation |-> "insert",
          source_data |-> source_record, existing_data |-> None,
          confidence |-> Conf(1000), priority |-> 2]
    ELSE IF /\ DOMAIN existing_record # {}      \* existing_hash is None for {}
            /\ source_hash = calculate_data_hash(existing_record)
    THEN [case_id |-> CaseIdOf(source_record), operation |-> "skip",
          source_data |-> source_record, existing_data |-> existing_record,
          confidence |-> Conf(1000), priority |-> 5]
    ELSE [case_id |-> CaseIdOf(source_record), operation |-> "update",
          source_data |-> source_record, existing_data |-> existing_record,
          confidence |-> calculate_update_confidence(source_record, existing_record),
          priority |-> calculate_update_priority(source_record, existing_record)]


\* Bounds of the sync model
MaxFetch == 1
MaxOps == 2
MaxSyncTime == 1

NULL == <<>>
cache_duration_hours == 6

\* source_configs: the configured sources
source_configs == {"namus", "florida_fdle"}
\* The `sources` argument of run_incremental_sync: None, that is all the
\* configured sources in the order of source_configs
SyncSourceLists == {<<"namus", "florida_fdle">>}

\* The table missing_persons of app.db.  No statement of the updater writes
\* it (execute_sync_operation reports what it would write), so it is the
\* same in every state.
missing_persons ==
    {[id |-> Str(<<"1">>), name |-> Str(<<"J", "o">>), status |-> Str(<<"A", "c", "t", "i", "v", "e">>),
      phone |-> Str(<<"5">>), city |-> Str(<<"D", "a", "l">>), updated_at |-> Num(1)]}

\* get_existing_cases_map, then existing_cases.get(case_id)
ExistingCase(case_id) ==
    IF \E r \in missing_persons : CaseIdOf(r) = case_id
    THEN CHOOSE r \in missing_persons : CaseIdOf(r) = case_id
    ELSE None

\* What a source returns: dicts, and one JSON value that is no dict (on which
\* record.get raises).
ExistingRow == CHOOSE r \in missing_persons : TRUE
FetchItems ==
    { [ExistingRow EXCEPT !["city"] = Str(<<" ", "d", "A", "L">>)],
      [ExistingRow EXCEPT !["city"] = Str(<<"H", "o", "u">>)],
      [ExistingRow EXCEPT !["status"] = Str(<<"F", "o", "u", "n", "d">>), !["updated_at"] = Num(2)],
      [id |-> Str(<<"2">>), name |-> Str(<<"A", "l">>), status |-> Str(<<"A", "c", "t", "i", "v", "e">>)],
      Str(<<"x">>) }
IsDict(item) == "t" \notin DOMAIN item

SeqsUpTo(S, n) == UNION {[1..k -> S] : k \in 0..n}

\* fetch_incremental_data: the records of the response; [] for a source
\* without configuration, a request error or a non-200 response.
FetchResults(source_name) ==
    IF source_name \in source_configs THEN SeqsUpTo(FetchItems, MaxFetch) ELSE {<<>>}

\* The row INSERTed by queue_sync_operation (id AUTOINCREMENT, created_at
\* DEFAULT CURRENT_TIMESTAMP).  The columns source_hash, existing_hash and
\* sync_reason are written here and read by no statement; they are left out.
SyncRow(rows, sync_record, t) ==
    [id |-> Len(rows) + 1,
     case_id |-> sync_record.case_id,
     operation |-> sync_record.operation,
     confidence |-> sync_record.confidence,
     priority |-> sync_record.priority,
     created_at |-> t,
     processed_at |-> NULL,
     result |-> NULL]

\* A queue_sync_operation that coalesces: the new row takes the place of the
\* case's pending row, if it has one.
queue_sync_operation_coalescing(rows, sync_record, t) ==
    LET same == {k \in 1..Len(rows) : /\ rows[k].case_id = sync_record.case_id
                                       /\ rows[k].processed_at = <<>>} IN
    IF same = {} THEN Append(rows, SyncRow(rows, sync_record, t))
    ELSE LET k == CHOOSE k \in same : TRUE IN
         [rows EXCEPT ![k] = [SyncRow(rows, sync_record, t) EXCEPT !.id = k]]

\* queue_sync_operation: a plain INSERT, whatever rows the case already has
queue_sync_operation(rows, sync_record, t) == Append(rows, SyncRow(rows, sync_record, t))

EmptySourceStats(n) ==
    [records_fetched |-> n, operations_queued |-> 0, inserts |-> 0, updates |-> 0,
     skips |-> 0, errors |-> 0]

\* existing_record = existing_cases.get(case_id), then
\* sync_record = self.analyze_record_changes(record, existing_record),
\* for each dict a source may return
SyncRecordOf ==
    [record \in {item \in FetchItems : IsDict(item)} |->
        analyze_record_changes(record, ExistingCase(CaseIdOf(record)))]

\* One iteration of `for record in incremental_data`: st = [rows, stats].
\* queue_ok is whether the INSERT of queue_sync_operation went through (no
\* INSERT is made for an item that is no dict).
AnalyzeAndQueue(st, record, queue_ok, t) ==
    IF ~IsDict(record)
    THEN [st EXCEPT !.stats.errors = @ + 1]                \* except Exception
    ELSE LET sync_record == SyncRecordOf[record] IN
         IF queue_ok
         THEN [rows |-> queue_sync_operation(st.rows, sync_record, t),
               stats |-> [st.stats EXCEPT
                  !.operations_queued = @ + 1,
                  !.inserts = IF sync_record.operation = "insert" THEN @ + 1 ELSE @,
                  !.updates = IF sync_record.operation = "update" THEN @ + 1 ELSE @,
                  !.skips = IF sync_record.operation \notin {"insert", "update"} THEN @ + 1 ELSE @]]
         ELSE [st EXCEPT !.stats.errors = @ + 1]

RECURSIVE RecordLoop(_, _, _, _)
RecordLoop(st, data, queue_ok, t) ==
    IF data = <<>> THEN st
    ELSE RecordLoop(AnalyzeAndQueue(st, Head(data), Head(queue_ok), t),
                    Tail(data), Tail(queue_ok), t)

\* stats.get(key, default)
StatsGet(stats, key, default) == IF key \in DOMAIN stats THEN stats[key] ELSE default

\* An update_sync_metadata that leaves the source's row as it is when the
\* pass had errors.
update_sync_metadata_unless_errors(meta, source_name, stats, t) ==
    IF stats.errors > 0 THEN meta
    ELSE [meta EXCEPT ![source_name] =
            [last_sync_time |-> t,
             records_processed |-> 0, records_added |-> 0, records_updated |-> 0,
             records_deleted |-> 0, error_count |-> 0,
             next_sync_time |-> t + 6 * 3600]]

\* update_sync_metadata: INSERT OR REPLACE of the source's row
update_sync_metadata(meta, source_name, stats, t) ==
    [meta EXCEPT ![source_name] =
        [last_sync_time |-> t,
         records_processed |-> StatsGet(stats, "records_processed", 0),
         records_added |-> StatsGet(stats, "records_added", 0),
         records_updated |-> StatsGet(stats, "records_updated", 0),
         records_deleted |-> StatsGet(stats, "records_deleted", 0),
         error_count |-> StatsGet(stats, "error_count", 0),
         next_sync_time |-> t + cache_duration_hours * 3600]]

\* get_last_sync_time: the last_sync_time of the source's row, None ({})
\* without a row
get_last_sync_time(meta, source_name) ==
    IF meta[source_name] = NoRow THEN {} ELSE {meta[source_name].last_sync_time}

\* `fetched` records whether the last fetch of the source loop was answered
RunIdle == [pc |-> "idle", sources |-> <<>>, idx |-> 0, total_operations_queued |-> 0,
            source_results |-> <<>>, fetched |-> TRUE]

\* run_incremental_sync, entry
RunIncrementalSyncBegin ==
    /\ run_sync.pc = "idle"
    /\ \E sources \in SyncSourceLists :
          run_sync' = [pc |-> "source_loop", sources |-> sources, idx |-> 1,
                       total_operations_queued |-> 0, source_results |-> <<>>,
                       fetched |-> TRUE]
    /\ UNCHANGED <<now, ticks, sync_operations, source_sync_metadata, worker, main_store,
                   executions, alertVars, schedVars, restVars, moreVars>>

\* run_incremental_sync, one iteration of `for source_name in sources`:
\* fetch, analyse and queue every record, update the source's metadata.
\* `fetched` is whether the request of fetch_incremental_data was answered
\* with status 200; when it was not, the records are [].
RunSourcePass ==
    /\ run_sync.pc = "source_loop"
    /\ run_sync.idx <= Len(run_sync.sources)
    /\ LET source_name == run_sync.sources[run_sync.idx] IN
       \E data \in FetchResults(source_name) :
       \E fetched \in {ok \in BOOLEAN : ~ok => data = <<>>} :
       \E queue_ok \in {q \in [1..Len(data) -> BOOLEAN] :
                           \A k \in 1..Len(data) : ~IsDict(data[k]) => q[k]} :
          LET st == RecordLoop([rows |-> sync_operations,
                                stats |-> EmptySourceStats(Len(data))],
                               data, queue_ok, now) IN
          /\ Len(st.rows) <= MaxOps
          /\ sync_operations' = st.rows
          /\ executions' = [k \in 1..Len(st.rows) |->
                               IF k <= Len(executions) THEN executions[k] ELSE 0]
          /\ source_sync_metadata' =
                update_sync_metadata(source_sync_metadata, source_name, st.stats, now)
          /\ run_sync' = [run_sync EXCEPT
                !.idx = @ + 1,
                !.total_operations_queued = @ + st.stats.operations_queued,
                !.fetched = fetched,
                !.source_results = Append(@, [source_name |-> source_name,
                                              stats |-> st.stats])]
    /\ UNCHANGED <<now, ticks, worker, main_store, alertVars, schedVars, restVars, moreVars>>

\* run_incremental_sync, after the loop: process the queue if anything was
\* queued, else return.
RunAfterLoop ==
    /\ run_sync.pc = "source_loop"
    /\ run_sync.idx > Len(run_sync.sources)
    /\ run_sync' = IF run_sync.total_operations_queued > 0
                   THEN [run_sync EXCEPT !.pc = "process_sync_queue", !.fetched = TRUE]
                   ELSE RunIdle
    /\ UNCHANGED <<now, ticks, sync_operations, source_sync_metadata, worker, main_store,
                   executions, alertVars, schedVars, restVars, moreVars>>


\* The processes that run process_sync_queue on the same incremental_sync.db:
\* run_incremental_sync (which calls it after its source loop) and the
\* command line's --process-queue.
Workers == {"run_incremental_sync", "process_queue_cli"}

WorkerIdle == [pc |-> "idle", operations |-> <<>>, i |-> 0, result |-> NULL,
               txn |-> {}]

\* A SELECT without the priority condition
PendingAnyPriority(rows) ==
    {k \in 1..Len(rows) : /\ rows[k].processed_at = NULL
                          /\ rows[k].confidence >= min_confidence_threshold}

\* WHERE processed_at IS NULL AND priority <= ? AND confidence >= ?
Pending(rows) ==
    {k \in 1..Len(rows) : /\ rows[k].processed_at = NULL
                          /\ rows[k].priority <= priority_threshold
                          /\ rows[k].confidence >= min_confidence_threshold}

\* ORDER BY priority ASC, created_at ASC: a and b may appear in this order
OrderedBefore(rows, a, b) ==
    \/ rows[a].priority < rows[b].priority
    \/ rows[a].priority = rows[b].priority /\ rows[a].created_at <= rows[b].created_at

\* ORDER BY over the rows `ids`: the rows sorted on (priority, created_at),
\* the rows equal on both keys in any order.  `tied` holds the places where a
\* run of two or more such rows starts, last(s) is where the run ends.
SortedSeqs(rows, ids) ==
    LET SameKeys(a, b) == OrderedBefore(rows, a, b) /\ OrderedBefore(rows, b, a)
        sorted == SortSeq(SelectSeq([k \in 1..Len(rows) |-> k], LAMBDA k : k \in ids),
                          LAMBDA a, b : ~OrderedBefore(rows, b, a))
        n == Len(sorted)
        tied == {s \in 1..n : /\ s < n
                               /\ SameKeys(sorted[s], sorted[s + 1])
                               /\ (s = 1 \/ ~SameKeys(sorted[s - 1], sorted[s]))}
        last(s) == s + Cardinality({y \in s..n : SameKeys(sorted[s], sorted[y])}) - 1
        orders(s) == {q \in [s..last(s) -> {sorted[y] : y \in s..last(s)}] :
                         \A x, y \in DOMAIN q : x # y => q[x] # q[y]}
        choices == {c \in [tied -> UNION {orders(s) : s \in tied}] :
                       \A s \in tied : c[s] \in orders(s)}
        startOf(x) == {s \in tied : s <= x /\ x <= last(s)}
    IN {[x \in 1..n |-> IF startOf(x) = {} THEN sorted[x]
                        ELSE c[CHOOSE s \in startOf(x) : TRUE][x]] : c \in choices}

\* The results the SELECT of process_sync_queue may return: the pending rows
\* in an order the ORDER BY allows, cut to LIMIT batch_size.
SelectOperations(rows) ==
    {SubSeq(p, 1, Min(Len(p), batch_size)) : p \in SortedSeqs(rows, Pending(rows))}

\* execute_sync_operation
execute_sync_operation(operation) ==
    IF operation.operation \in {"insert", "update", "skip"}
    THEN [success |-> TRUE, error |-> NULL]
    ELSE [success |-> FALSE, error |-> <<"Unknown operation type">>]

\* mark_operation_processed: UPDATE ... SET processed_at, result WHERE id = ?
mark_operation_processed(rows, operation_id, result, t) ==
    [rows EXCEPT ![operation_id].processed_at = <<t>>, ![operation_id].result = result]

\* process_sync_queue, the SELECT of the pending operations and the opening
\* of main_conn.  run_incremental_sync enters here from its last step.
ProcessSelect(w) ==
    /\ worker[w].pc = "idle"
    /\ w = "run_incremental_sync" => run_sync.pc = "process_sync_queue"
    /\ \E operations \in SelectOperations(sync_operations) :
          worker' = [worker EXCEPT ![w] = [pc |-> "loop", operations |-> operations,
                                           i |-> 1, result |-> NULL, txn |-> {}]]
    /\ UNCHANGED <<now, ticks, sync_operations, source_sync_metadata, run_sync, main_store,
                   executions, alertVars, schedVars, restVars, moreVars>>

\* process_sync_queue, `result = self.execute_sync_operation(operation,
\* main_cursor)`: what the operation writes goes through main_cursor, inside
\* the transaction of main_conn that is still open.
ProcessExecute(w) ==
    /\ worker[w].pc = "loop"
    /\ worker[w].i <= Len(worker[w].operations)
    /\ LET id == worker[w].operations[worker[w].i]
           result == execute_sync_operation(sync_operations[id]) IN
       /\ worker' = [worker EXCEPT ![w].pc = "mark", ![w].result = result,
                                   ![w].txn = IF result.success THEN @ \cup {id} ELSE @]
       /\ executions' = [executions EXCEPT ![id] = @ + 1]
    /\ UNCHANGED <<now, ticks, sync_operations, source_sync_metadata, run_sync, main_store,
                   alertVars, schedVars, restVars, moreVars>>

\* process_sync_queue, `self.mark_operation_processed(operation['id'], result)`:
\* its own connection to the sync database, committed at once.
ProcessMark(w) ==
    /\ worker[w].pc = "mark"
    /\ sync_operations' = mark_operation_processed(sync_operations,
                             worker[w].operations[worker[w].i], worker[w].result, now)
    /\ worker' = [worker EXCEPT ![w].pc = "loop", ![w].i = @ + 1, ![w].result = NULL]
    /\ UNCHANGED <<now, ticks, source_sync_metadata, run_sync, main_store, executions,
                   alertVars, schedVars, restVars, moreVars>>

\* process_sync_queue, after the loop: main_conn.commit() and return.
ProcessCommit(w) ==
    /\ worker[w].pc = "loop"
    /\ worker[w].i > Len(worker[w].operations)
    /\ main_store' = main_store \cup worker[w].txn
    /\ worker' = [worker EXCEPT ![w] = WorkerIdle]
    /\ run_sync' = IF w = "run_incremental_sync" THEN RunIdle ELSE run_sync
    /\ UNCHANGED <<now, ticks, sync_operations, source_sync_metadata, executions,
                   alertVars, schedVars, restVars, moreVars>>

\* The process stops inside process_sync_queue (killed, power loss): SQLite
\* rolls the open transaction of main_conn back; what was committed stays.
ProcessCrash(w) ==
    /\ worker[w].pc \in {"loop", "mark"}
    /\ worker' = [worker EXCEPT ![w].pc = "crashed", ![w].txn = {}]
    /\ run_sync' = IF w = "run_incremental_sync" THEN [run_sync EXCEPT !.pc = "crashed"]
                   ELSE run_sync
    /\ UNCHANGED <<now, ticks, sync_operations, source_sync_metadata, main_store, executions,
                   alertVars, schedVars, restVars, moreVars>>

SyncTick ==
    /\ now < MaxSyncTime
    /\ now' = now + 1
    /\ ticks' = ticks + 1
    /\ UNCHANGED <<alertVars, syncVars, schedVars, restVars, moreVars>>

SyncInit ==
    /\ sync_operations = <<>>
    /\ source_sync_metadata = [s \in source_configs |-> NoRow]
    /\ run_sync = RunIdle
    /\ worker = [w \in Workers |-> WorkerIdle]
    /\ main_store = {}
    /\ executions = <<>>

(***************************************************************************)
(*                       intelligent_scheduler.py                          *)
(***************************************************************************)

\* A Python float is an exact fraction [n, d] in lowest terms with d > 0:
\* the arithmetic below is that of the source without the rounding of
\* binary floating point.
Abs(x) == IF x < 0 THEN -x ELSE x

RECURSIVE GCD(_, _)
GCD(a, b) == IF b = 0 THEN a ELSE GCD(b, a % b)

Frac(n, d) == LET g == GCD(Abs(n), d) IN [n |-> n \div g, d |-> d \div g]
Whole(k) == [n |-> k, d |-> 1]
FAdd(x, y) ==
    LET g == GCD(x.d, y.d) IN
    Frac(x.n * (y.d \div g) + y.n * (x.d \div g), (x.d \div g) * y.d)
FSub(x, y) == FAdd(x, [n |-> -y.n, d |-> y.d])
FMul(x, y) ==
    LET g1 == GCD(Abs(x.n), y.d)
        g2 == GCD(Abs(y.n), x.d) IN
    Frac((x.n \div g1) * (y.n \div g2), (x.d \div g2) * (y.d \div g1))
FLess(x, y) == x.n * y.d < y.n * x.d
FLeq(x, y) == x.n * y.d <= y.n * x.d
\* min(a, b) of Python
FMin(x, y) == IF FLess(y, x) THEN y ELSE x
\* int(x): truncation toward zero
int(x) == IF x.n >= 0 THEN x.n \div x.d ELSE -((-x.n) \div x.d)

RECURSIVE FSum(_)
FSum(xs) == IF xs = <<>> THEN Whole(0) ELSE FAdd(Head(xs), FSum(Tail(xs)))
\* statistics.mean(xs) if xs else 0
mean(xs) == IF xs = <<>> THEN Whole(0) ELSE FMul(FSum(xs), Frac(1, Len(xs)))

\* enum UpdateFrequency and schedule_config['frequency_intervals'], minutes
UpdateFrequency == {"critical", "high", "normal", "low", "minimal"}
frequency_intervals ==
    [critical |-> <<5, 15>>, high |-> <<30, 60>>, normal |-> <<120, 360>>,
     low |-> <<720, 1440>>, minimal |-> <<1440, 4320>>]

\* schedule_config['factor_weights']
factor_weights ==
    [activity_level |-> Frac(25, 100), change_rate |-> Frac(20, 100),
     urgency_score |-> Frac(20, 100), error_rate |-> Frac(-15, 100),
     response_time |-> Frac(-10, 100), system_load |-> Frac(-10, 100)]

learning_window_hours == 168
min_samples_for_learning == 10

\* An enum ActivityPattern that has the member CRITICAL as well.
ActivityPatternWithCritical ==
    {"critical", "burst", "steady", "periodic", "sporadic", "dormant"}

\* enum ActivityPattern: the values of its members
ActivityPattern == {"burst", "steady", "periodic", "sporadic", "dormant"}

\* dt.hour of a time in seconds
HourOf(t) == (t \div 3600) % 24

\* The SourceMetrics returned for a source without enough samples, and by
\* the `except` of analyze_source_patterns.
DefaultSourceMetrics(source_name, t) ==
    [source_name |-> source_name,
     avg_records_per_hour |-> Whole(0),
     change_rate |-> Whole(0),
     error_rate |-> Whole(0),
     response_time_avg |-> Whole(0),
     activity_pattern |-> "sporadic",
     peak_hours |-> {},
     last_significant_update |-> t - 24 * 3600,
     urgency_score |-> Whole(0)]

\* The rows of the SELECT of analyze_source_patterns, as a sequence of rows
\* (WHERE source_name = ? AND timestamp >= ?)
RECURSIVE SelectRows(_, _, _)
SelectRows(rows, source_name, since_time) ==
    IF rows = <<>> THEN <<>>
    ELSE LET rest == SelectRows(Tail(rows), source_name, since_time) IN
         IF Head(rows).source_name = source_name /\ Head(rows).timestamp >= since_time
         THEN <<Head(rows)>> \o rest ELSE rest

metrics_data(rows, source_name, t) ==
    SelectRows(rows, source_name, t - learning_window_hours * 3600)

\* max(xs) of a non-empty sequence of integers
MaxOf(xs) == CHOOSE m \in {xs[k] : k \in DOMAIN xs} : \A k \in DOMAIN xs : xs[k] <= m

\* classify_activity_pattern.  cv = std_dev / avg_hourly is compared through
\* its square: variance = (n * sum(x^2) - sum(x)^2) / (n * (n - 1)).
classify_activity_pattern(hourly_records, hourly_activity) ==
    IF hourly_records = <<>> THEN "dormant"
    ELSE
    LET n == Len(hourly_records)
        total_activity == SumSeq([h \in 1..24 |-> hourly_activity[h - 1]])
        max_hourly == MaxOf(hourly_records)
        sum == SumSeq(hourly_records)
        avg_hourly == Frac(sum, n)
        variance == IF n > 1
                    THEN Frac(n * SumSeq([k \in 1..n |-> hourly_records[k] * hourly_records[k]])
                                 - sum * sum, n * (n - 1))
                    ELSE Whole(0)
        avg_squared == FMul(avg_hourly, avg_hourly)
        cv_above_2 == sum > 0 /\ FLess(FMul(Whole(4), avg_squared), variance)
        cv_below_half == sum <= 0 \/ FLess(FMul(Whole(4), variance), avg_squared)
        active_hours == Cardinality({h \in 0..23 : FLess(avg_hourly, Whole(hourly_activity[h]))})
    IN
    IF total_activity < 10 THEN "dormant"
    ELSE IF cv_above_2
         THEN IF FLess(FMul(avg_hourly, Whole(5)), Whole(max_hourly)) THEN "burst"
              ELSE "sporadic"
    ELSE IF cv_below_half THEN "steady"
    ELSE IF 6 <= active_hours /\ active_hours <= 12 THEN "periodic"
    ELSE "steady"

\* analyze_source_patterns from `# Process metrics data` on: the statistics
\* of the selected rows.
ProcessMetricsData(source_name, data, t) ==
    LET idx == DOMAIN data
        hourly_records == [k \in idx |-> data[k].records_processed]
        change_rates == [k \in idx |->
            IF data[k].records_processed > 0
            THEN Frac(data[k].records_changed, data[k].records_processed)
            ELSE Whole(0)]
        error_rates == [k \in idx |->
            IF data[k].records_processed > 0
            THEN Frac(data[k].errors_count, data[k].records_processed)
            ELSE IF data[k].errors_count = 0 THEN Whole(0) ELSE Whole(1)]
        response_times == [k \in idx |-> Whole(data[k].response_time_ms)]
        urgency_scores == [k \in idx |-> data[k].urgency_score]
        hourly_activity == [h \in 0..23 |->
            SumSeq([k \in idx |-> IF HourOf(data[k].timestamp) = h
                                  THEN data[k].records_processed ELSE 0])]
        max_activity == MaxOf([h \in 1..24 |-> hourly_activity[h - 1]])
        peak_threshold == IF max_activity > 0 THEN FMul(Whole(max_activity), Frac(75, 100))
                          ELSE Whole(0)
        significant == {k \in idx : \/ data[k].records_changed > 0
                                    \/ FLess(Frac(5, 10), data[k].urgency_score)}
    IN
    [source_name |-> source_name,
     avg_records_per_hour |-> mean([k \in idx |-> Whole(hourly_records[k])]),
     change_rate |-> mean(change_rates),
     error_rate |-> mean(error_rates),
     response_time_avg |-> mean(response_times),
     activity_pattern |-> classify_activity_pattern(hourly_records, hourly_activity),
     peak_hours |-> {h \in 0..23 : FLeq(peak_threshold, Whole(hourly_activity[h]))},
     \* the first significant row in ORDER BY timestamp DESC
     last_significant_update |->
        IF significant = {} THEN t - 24 * 3600
        ELSE MaxOf([k \in 1..Len(data) |->
                       IF k \in significant THEN data[k].timestamp ELSE t - 24 * 3600]),
     urgency_score |-> mean(urgency_scores)]

\* An analyze_source_patterns that has no minimum number of samples.
analyze_source_patterns_no_minimum(rows, source_name, t, read_ok) ==
    IF ~read_ok THEN DefaultSourceMetrics(source_name, t)
    ELSE ProcessMetricsData(source_name, metrics_data(rows, source_name, t), t)

\* analyze_source_patterns.  read_ok: connecting to the scheduler database
\* and the SELECT went through; otherwise the `except` returns the default.
analyze_source_patterns(rows, source_name, t, read_ok) ==
    IF ~read_ok THEN DefaultSourceMetrics(source_name, t)
    ELSE LET data == metrics_data(rows, source_name, t) IN
         IF Len(data) < min_samples_for_learning
         THEN DefaultSourceMetrics(source_name, t)
         ELSE ProcessMetricsData(source_name, data, t)

\* The dict literal pattern_multipliers of calculate_adaptive_frequency: the
\* member of ActivityPattern each key names, and its value.
pattern_multipliers ==
    [critical |-> Frac(15, 10), burst |-> Frac(13, 10), steady |-> Whole(1),
     periodic |-> Frac(9, 10), sporadic |-> Frac(7, 10), dormant |-> Frac(5, 10)]

\* Evaluating the literal raises AttributeError when a key names a member
\* that ActivityPattern does not have.
PatternMultipliersRaises == \E k \in DOMAIN pattern_multipliers : k \notin ActivityPattern

\* calculate_adaptive_frequency, the `try` block
AdaptiveRecommendation(m, t) ==
    LET factors ==
            [activity_level |-> FMin(FMul(m.avg_records_per_hour, Frac(1, 100)), Whole(1)),
             change_rate |-> FMin(FMul(m.change_rate, Whole(10)), Whole(1)),
             urgency_score |-> m.urgency_score,
             error_rate |-> FMin(FMul(m.error_rate, Whole(10)), Whole(1)),
             response_time |-> FMin(FMul(m.response_time_avg, Frac(1, 1000)), Whole(1)),
             system_load |-> Frac(3, 10)]
        names == <<"activity_level", "change_rate", "urgency_score", "error_rate",
                   "response_time", "system_load">>
        weighted_score == FSum([k \in 1..6 |-> FMul(factors[names[k]], factor_weights[names[k]])])
        pattern_multiplier ==
            IF m.activity_pattern \in DOMAIN pattern_multipliers
            THEN pattern_multipliers[m.activity_pattern] ELSE Whole(1)
        final_score == FMul(weighted_score, pattern_multiplier)
        frequency ==
            IF FLeq(Frac(8, 10), final_score) THEN "critical"
            ELSE IF FLeq(Frac(6, 10), final_score) THEN "high"
            ELSE IF FLeq(Frac(4, 10), final_score) THEN "normal"
            ELSE IF FLeq(Frac(2, 10), final_score) THEN "low"
            ELSE "minimal"
        min_interval == frequency_intervals[frequency][1]
        max_interval == frequency_intervals[frequency][2]
        interval_multiplier == IF HourOf(t) \in m.peak_hours THEN Frac(7, 10) ELSE Whole(1)
        target_interval == FAdd(Whole(min_interval),
                                FMul(Whole(max_interval - min_interval),
                                     FSub(Whole(1), final_score)))
        final_interval == int(FMul(target_interval, interval_multiplier))
    IN [source_name |-> m.source_name,
        update_frequency |-> frequency,
        interval_minutes |-> final_interval,
        next_update_time |-> t + final_interval * 60,
        confidence |-> FMin(FAdd(final_score, Frac(2, 10)), Whole(1)),
        adaptive_factors |-> factors]

\* calculate_adaptive_frequency, the `except` block: the safe default
DefaultRecommendation(m, t) ==
    [source_name |-> m.source_name,
     update_frequency |-> "normal",
     interval_minutes |-> 240,
     next_update_time |-> t + 4 * 3600,
     confidence |-> Frac(5, 10),
     adaptive_factors |-> [error |-> Whole(1)]]

\* calculate_adaptive_frequency
calculate_adaptive_frequency(m, t) ==
    IF PatternMultipliersRaises THEN DefaultRecommendation(m, t)
    ELSE AdaptiveRecommendation(m, t)

\* A save_schedule_recommendation that returns True whether or not its
\* INSERT went through.
save_schedule_recommendation_always_true(rows, rec, t, insert_ok) ==
    [rows |-> IF insert_ok
              THEN Append(rows, [id |-> Len(rows) + 1,
                                 source_name |-> rec.source_name,
                                 update_frequency |-> rec.update_frequency,
                                 interval_minutes |-> rec.interval_minutes,
                                 next_update_time |-> rec.next_update_time,
                                 confidence |-> rec.confidence,
                                 created_at |-> t])
              ELSE rows,
     result |-> TRUE]

\* save_schedule_recommendation: the table after the call and the value
\* returned.  insert_ok: the INSERT and its commit went through; otherwise
\* the `except` returns False.
save_schedule_recommendation(rows, rec, t, insert_ok) ==
    [rows |-> IF insert_ok
              THEN Append(rows, [id |-> Len(rows) + 1,
                                 source_name |-> rec.source_name,
                                 update_frequency |-> rec.update_frequency,
                                 interval_minutes |-> rec.interval_minutes,
                                 next_update_time |-> rec.next_update_time,
                                 confidence |-> rec.confidence,
                                 created_at |-> t])
              ELSE rows,
     result |-> insert_ok]

\* Bounds of the scheduler model
MaxSchedTicks == 1
MaxRecorded == 1

\* `sources` of update_all_schedules
sources == <<"namus", "florida_fdle", "backup_sources">>

\* The time at which the model starts: day 8, 00:00
SchedStart == 8 * 24 * 3600

\* The `metrics` dicts given to record_source_metrics
SampleMetrics ==
    { [records_processed |-> 100, records_changed |-> 10, errors_count |-> 0,
       response_time_ms |-> 500, urgency_score |-> Frac(9, 10)],
      [records_processed |-> 0, records_changed |-> 0, errors_count |-> 1,
       response_time_ms |-> 2000, urgency_score |-> Whole(0)] }

\* The row INSERTed by record_source_metrics
MetricsRow(source_name, t, metrics) ==
    [source_name |-> source_name, timestamp |-> t,
     records_processed |-> metrics.records_processed,
     records_changed |-> metrics.records_changed,
     errors_count |-> metrics.errors_count,
     response_time_ms |-> metrics.response_time_ms,
     urgency_score |-> metrics.urgency_score]

\* The histories a source starts with: the rows of n earlier hourly
\* record_source_metrics calls, the oldest `oldest` seconds before SchedStart.
BusyMetrics == CHOOSE m \in SampleMetrics : m.records_processed > 0
EarlierRows(source_name, n, oldest) ==
    [k \in 1..n |-> MetricsRow(source_name, SchedStart - oldest + (k - 1) * 3600, BusyMetrics)]
SourceHistories(source_name) ==
    IF source_name = "namus"
    THEN { <<>>,
           EarlierRows(source_name, min_samples_for_learning - 1, 12 * 3600),
           EarlierRows(source_name, min_samples_for_learning, learning_window_hours * 3600) }
    ELSE IF source_name = "florida_fdle"
    THEN { <<>>, EarlierRows(source_name, min_samples_for_learning - 1, 12 * 3600) }
    ELSE { <<>> }

UpdateIdle ==
    [pc |-> "idle", idx |-> 0, first_id |-> 0,
     source_metrics |-> NoRow, recommendation |-> NoRow,
     stats |-> [sources_analyzed |-> 0, schedules_updated |-> 0, schedule_changes |-> <<>>]]

\* record_source_metrics, called by whatever collected from the source
RecordSourceMetrics ==
    /\ Cardinality({k \in DOMAIN source_metrics_history :
                       source_metrics_history[k].timestamp >= SchedStart}) < MaxRecorded
    /\ \E source_name \in {sources[k] : k \in DOMAIN sources}, metrics \in SampleMetrics :
          source_metrics_history' =
              Append(source_metrics_history, MetricsRow(source_name, now, metrics))
    /\ UNCHANGED <<now, ticks, schedule_recommendations, update_run, source_metrics,
                   recommendation, alertVars, syncVars, restVars, moreVars>>

\* update_all_schedules, entry
UpdateAllSchedulesBegin ==
    /\ update_run.pc = "idle"
    /\ update_run' = [UpdateIdle EXCEPT !.pc = "source_loop", !.idx = 1,
                                        !.first_id = Len(schedule_recommendations) + 1]
    /\ UNCHANGED <<now, ticks, source_metrics_history, schedule_recommendations,
                   source_metrics, recommendation, alertVars, syncVars, restVars, moreVars>>

\* update_all_schedules, one iteration of `for source_name in sources`
UpdateSource ==
    /\ update_run.pc = "source_loop"
    /\ update_run.idx <= Len(sources)
    /\ \E read_ok \in BOOLEAN :
          LET source_name == sources[update_run.idx]
              m == analyze_source_patterns(source_metrics_history, source_name, now, read_ok)
              rec == calculate_adaptive_frequency(m, now)
          IN
          \E insert_ok \in BOOLEAN :
          LET saved == save_schedule_recommendation(schedule_recommendations, rec, now, insert_ok)
          IN
          /\ schedule_recommendations' = saved.rows
          /\ update_run' = [update_run EXCEPT
                !.idx = @ + 1,
                !.source_metrics = m,
                !.recommendation = rec,
                !.stats.schedules_updated = IF saved.result THEN @ + 1 ELSE @,
                !.stats.schedule_changes =
                    IF saved.result
                    THEN Append(@, [source_name |-> source_name,
                                    frequency |-> rec.update_frequency,
                                    interval_minutes |-> rec.interval_minutes,
                                    confidence |-> rec.confidence])
                    ELSE @,
                !.stats.sources_analyzed = @ + 1]
    /\ UNCHANGED <<now, ticks, source_metrics_history, source_metrics, recommendation,
                   alertVars, syncVars, restVars, moreVars>>

\* update_all_schedules, `return stats` after the loop
UpdateAllSchedulesReturn ==
    /\ update_run.pc = "source_loop"
    /\ update_run.idx > Len(sources)
    /\ update_run' = [update_run EXCEPT !.pc = "returned"]
    /\ UNCHANGED <<now, ticks, source_metrics_history, schedule_recommendations,
                   source_metrics, recommendation, alertVars, syncVars, restVars, moreVars>>

\* An hour passes.
SchedTick ==
    /\ ticks < MaxSchedTicks
    /\ now' = now + 3600
    /\ ticks' = ticks + 1
    /\ UNCHANGED <<alertVars, syncVars, schedVars, restVars, moreVars>>

SchedInit ==
    /\ source_metrics_history = <<>>
    /\ schedule_recommendations = <<>>
    /\ update_run = UpdateIdle
    /\ source_metrics = NoRow
    /\ recommendation = NoRow

\* The SourceMetrics given to calculate_adaptive_frequency: scores below 0
\* and above 1, every pattern, the current hour a peak hour or not.
SourceMetricsInputs ==
    [source_name : {"namus"},
     avg_records_per_hour : {Whole(0), Whole(50), Whole(400)},
     change_rate : {Whole(0), Frac(1, 20), Frac(1, 2)},
     error_rate : {Whole(0), Frac(1, 10)},
     response_time_avg : {Whole(0), Whole(2000)},
     activity_pattern : ActivityPattern,
     peak_hours : {{}, {HourOf(SchedStart)}},
     last_significant_update : {SchedStart - 24 * 3600},
     urgency_score : {Frac(-1, 2), Whole(0), Frac(9, 10), Whole(3)}]

\* recommendation = self.calculate_adaptive_frequency(source_metrics)
Recommend ==
    /\ source_metrics # NoRow
    /\ recommendation = NoRow
    /\ recommendation' = calculate_adaptive_frequency(source_metrics, now)
    /\ UNCHANGED <<now, ticks, source_metrics_history, schedule_recommendations, update_run,
                   source_metrics, alertVars, syncVars, restVars, moreVars>>

\* ORDER BY r1.source_name: the configured source names in string order
SourceNameOrder == <<"backup_sources", "florida_fdle", "namus">>

\* Bound on the rows of schedule_recommendations before another
\* update_all_schedules call is started
MaxSavedRows == 3

\* The ScheduleRecommendation built from a row of schedule_recommendations
RecommendationOf(row) ==
    [source_name |-> row.source_name,
     update_frequency |-> row.update_frequency,
     interval_minutes |-> row.interval_minutes,
     next_update_time |-> row.next_update_time,
     confidence |-> row.confidence]

\* SELECT * FROM schedule_recommendations r1 WHERE r1.created_at =
\*   (SELECT MAX(r2.created_at) ... WHERE r2.source_name = r1.source_name):
\* the ids of the selected rows.  created_at is CURRENT_TIMESTAMP, whose
\* resolution is the second.
LatestRows(rows, source_name) ==
    {k \in DOMAIN rows :
        /\ rows[k].source_name = source_name
        /\ \A j \in DOMAIN rows :
              rows[j].source_name = source_name => rows[j].created_at <= rows[k].created_at}

\* The rows with the ids in S, in the order of their ids
RECURSIVE InIdOrder(_, _)
InIdOrder(rows, S) ==
    IF S = {} THEN <<>>
    ELSE LET k == CHOOSE x \in S : \A y \in S : x <= y
         IN <<rows[k]>> \o InIdOrder(rows, S \ {k})

RECURSIVE SelectLatest(_, _)
SelectLatest(rows, names) ==
    IF names = <<>> THEN <<>>
    ELSE InIdOrder(rows, LatestRows(rows, Head(names))) \o SelectLatest(rows, Tail(names))

\* get_current_schedules: the list returned.  read_ok: the SELECT went
\* through; otherwise the `except` returns [].
get_current_schedules(rows, read_ok) ==
    IF read_ok
    THEN LET fetched == SelectLatest(rows, SourceNameOrder)
         IN [k \in DOMAIN fetched |-> RecommendationOf(fetched[k])]
    ELSE <<>>

\* update_all_schedules is called again: the command line's --update-schedules
\* is run once more.
UpdateAllSchedulesAgain ==
    /\ update_run.pc = "returned"
    /\ Len(schedule_recommendations) <= MaxSavedRows
    /\ update_run' = UpdateIdle
    /\ UNCHANGED <<now, ticks, source_metrics_history, schedule_recommendations,
                   source_metrics, recommendation, alertVars, syncVars, restVars, moreVars>>

(***************************************************************************)
(*                 pipeline.py: the parallel collection step               *)
(***************************************************************************)

\* future.result(timeout=1800), seconds
result_timeout == 1800

\* Bounds of the collection model
MaxCollectTicks == 4
MaxCollected == 1

\* self.collectors: the enabled data sources that have a collector
collectors == {"namus", "florida_mepic"}

\* The seconds that pass between two steps
CollectTickStep == 600

\* What collect_data of a source returns: a list of at most MaxCollected records
CollectorResults(source_name) ==
    {[k \in 1..n |-> [source |-> source_name, case_number |-> k]] : n \in 0..MaxCollected}

CollectionIdle ==
    [pc |-> "idle", futures |-> [c \in collectors |-> "none"],
     results |-> [c \in collectors |-> <<>>], completed |-> <<>>, yielded |-> 0,
     all_records |-> <<>>, submitted_at |-> 0, returned |-> NoRow]

\* _collect_from_all_sources, entry: all_records = [] and one submit per
\* collector.  max_workers is 4 and there are two collectors, so every task
\* starts at once.
CollectFromAllSourcesBegin ==
    /\ collection.pc = "idle"
    /\ collection' = [CollectionIdle EXCEPT !.pc = "as_completed",
                                            !.futures = [c \in collectors |-> "running"],
                                            !.submitted_at = now]
    /\ UNCHANGED <<now, ticks, alertVars, syncVars, schedVars, staleness, dedup, analysis, moreVars>>

\* A worker thread: collect_data returns its list.
CollectorReturns(source_name) ==
    /\ collection.futures[source_name] = "running"
    /\ \E records \in CollectorResults(source_name) :
          collection' = [collection EXCEPT !.futures[source_name] = "finished",
                                           !.results[source_name] = records,
                                           !.completed = Append(@, source_name)]
    /\ UNCHANGED <<now, ticks, alertVars, syncVars, schedVars, staleness, dedup, analysis, moreVars>>

\* A worker thread: collect_data raises.
CollectorRaises(source_name) ==
    /\ collection.futures[source_name] = "running"
    /\ collection' = [collection EXCEPT !.futures[source_name] = "raised",
                                        !.completed = Append(@, source_name)]
    /\ UNCHANGED <<now, ticks, alertVars, syncVars, schedVars, staleness, dedup, analysis, moreVars>>

\* One iteration of `for future in as_completed(future_to_source)`:
\* as_completed, called without a timeout, yields the next future that is
\* done and blocks as long as there is none; future.result(timeout=1800) of a
\* done future returns its list or raises the collector's exception at once.
CollectNextCompleted ==
    /\ collection.pc = "as_completed"
    /\ collection.yielded < Len(collection.completed)
    /\ LET source_name == collection.completed[collection.yielded + 1] IN
       collection' = [collection EXCEPT
           !.yielded = @ + 1,
           !.all_records = IF collection.futures[source_name] = "finished"
                           THEN @ \o collection.results[source_name]
                           ELSE @]
    /\ UNCHANGED <<now, ticks, alertVars, syncVars, schedVars, staleness, dedup, analysis, moreVars>>

\* as_completed is exhausted once every future was yielded; the `with`
\* block's shutdown(wait=True) finds every task done; return all_records.
CollectFromAllSourcesReturn ==
    /\ collection.pc = "as_completed"
    /\ collection.yielded = Cardinality(collectors)
    /\ collection' = [collection EXCEPT !.pc = "returned", !.returned = collection.all_records]
    /\ UNCHANGED <<now, ticks, alertVars, syncVars, schedVars, staleness, dedup, analysis, moreVars>>

\* Time passes while the collectors run.
CollectTick ==
    /\ ticks < MaxCollectTicks
    /\ now' = now + CollectTickStep
    /\ ticks' = ticks + 1
    /\ UNCHANGED <<alertVars, syncVars, schedVars, restVars, moreVars>>

CollectionInit == collection = CollectionIdle

(***************************************************************************)
(*                       data_staleness_monitor.py                         *)
(***************************************************************************)

\* The thresholds (hours) given to DataStalenessMonitor by the scheduler and
\* by the command line
warning_threshold_hours == 24
critical_threshold_hours == 48
emergency_threshold_hours == 72

\* Bound of the staleness model
MaxStaleTicks == 2

\* The start of the model, and the hours that pass between two steps
StaleStart == 100 * 3600
StaleTickHours == {1, 3, 24}

levels == <<"ok", "warning", "critical", "emergency">>
LevelIndex(level) == CHOOSE k \in DOMAIN levels : levels[k] = level

\* The level of an age in seconds under thresholds in hours (warning,
\* critical, emergency): age_hours > threshold, the highest first.
LevelAt(age, hours) ==
    IF age > hours[3] * 3600 THEN "emergency"
    ELSE IF age > hours[2] * 3600 THEN "critical"
    ELSE IF age > hours[1] * 3600 THEN "warning"
    ELSE "ok"

\* The level of a file that exists and was modified at `mtime`, with the
\* thresholds raised by `extra` hours.
FileLevel(mtime, t, extra) ==
    LevelAt(t - mtime, <<warning_threshold_hours + extra[1],
                         critical_threshold_hours + extra[2],
                         emergency_threshold_hours + extra[3]>>)

\* What a check returns for a file: status, age and level.  The mtime of a
\* file is the set of its values: {} for a file that does not exist.
FileStatus(mtime, t, extra) ==
    IF mtime = {} THEN [status |-> "missing", age |-> {}, level |-> "emergency"]
    ELSE LET m == CHOOSE x \in mtime : TRUE IN
         [status |-> "exists", age |-> {t - m}, level |-> FileLevel(m, t, extra)]

check_csv_staleness(csv_mtime, t) == FileStatus(csv_mtime, t, <<0, 0, 0>>)

\* adjusted_thresholds: warning + 6, critical + 12, emergency + 24
check_database_staleness(database_mtime, t) == FileStatus(database_mtime, t, <<6, 12, 24>>)

\* load_alert_state: the content of data_staleness_state.json, or the default
\* {'last_alert_time': None, 'last_alert_level': None}.  A time or level that
\* may be None is the set of its values: {} for None.
NoAlertState == [last_alert_time |-> {}, last_alert_level |-> {}]
load_alert_state(state_file) == IF state_file = NoRow THEN NoAlertState ELSE state_file

\* should_send_alert, on the last_alerts of the monitor object
should_send_alert(last_alerts, level, t) ==
    IF last_alerts.last_alert_time = {} THEN TRUE
    ELSE LET last_alert_time == CHOOSE x \in last_alerts.last_alert_time : TRUE
             time_since_last == t - last_alert_time
         IN
         IF level = "emergency" THEN time_since_last > 2 * 3600
         ELSE IF level = "critical" THEN time_since_last > 6 * 3600
         ELSE IF level = "warning" THEN time_since_last > 24 * 3600
         ELSE FALSE

\* An overall level that looks at the CSV file only
overall_level_of_csv(csv_mtime, database_mtime, t) ==
    check_csv_staleness(csv_mtime, t).level

\* overall_level = levels[max(csv_level_idx, db_level_idx)]
overall_level(csv_mtime, database_mtime, t) ==
    levels[Max(LevelIndex(check_csv_staleness(csv_mtime, t).level),
               LevelIndex(check_database_staleness(database_mtime, t).level))]

\* check_and_alert by a monitor object whose last_alerts is given: the alert
\* is sent (webhook, email) and save_alert_state rewrites the state file; the
\* object's own last_alerts is left as it was loaded.  `sent` remembers, for
\* the scheduler's long-lived object, the last alert that object sent;
\* last_check remembers who checked, when, and what the object had sent
\* before.
check_and_alert(last_alerts, object) ==
    LET level == overall_level(staleness.csv_mtime, staleness.database_mtime, now)
        send == level # "ok" /\ should_send_alert(last_alerts, level, now)
    IN staleness' = [staleness EXCEPT
           !.state_file = IF send
                          THEN [last_alert_time |-> {now}, last_alert_level |-> {level}]
                          ELSE @,
           !.sent = IF send /\ object = "scheduler"
                    THEN {[time |-> now, level |-> level]} ELSE @,
           !.last_check = [level |-> level,
                           object |-> object,
                           time |-> now,
                           sent_before |-> IF object = "scheduler" THEN staleness.sent ELSE {},
                           csv |-> check_csv_staleness(staleness.csv_mtime, now),
                           database |-> check_database_staleness(staleness.database_mtime, now),
                           previous |-> IF staleness.last_check = NoRow THEN "none"
                                        ELSE staleness.last_check.level,
                           alert |-> send]]

\* AutomatedScheduler.__init__: the scheduler's DataStalenessMonitor is built
\* and loads the state file once.
SchedulerStart ==
    /\ staleness.last_alerts = NoRow
    /\ staleness' = [staleness EXCEPT !.last_alerts = load_alert_state(staleness.state_file)]
    /\ UNCHANGED <<now, ticks, alertVars, syncVars, schedVars, collection, dedup, analysis, moreVars>>

\* check_data_freshness, the scheduler's job
SchedulerCheck ==
    /\ staleness.last_alerts # NoRow
    /\ check_and_alert(staleness.last_alerts, "scheduler")
    /\ UNCHANGED <<now, ticks, alertVars, syncVars, schedVars, collection, dedup, analysis, moreVars>>

\* main --check: a new DataStalenessMonitor is built, loads the state file
\* and runs check_and_alert.
CommandLineCheck ==
    /\ check_and_alert(load_alert_state(staleness.state_file), "command_line")
    /\ UNCHANGED <<now, ticks, alertVars, syncVars, schedVars, collection, dedup, analysis, moreVars>>

\* update_data_timestamps: the CSV file is touched (and created, if missing).
UpdateDataTimestamps ==
    /\ staleness.csv_mtime # {now}
    /\ staleness' = [staleness EXCEPT !.csv_mtime = {now}]
    /\ UNCHANGED <<now, ticks, alertVars, syncVars, schedVars, collection, dedup, analysis, moreVars>>

\* Hours pass.
StaleTick ==
    /\ ticks < MaxStaleTicks
    /\ \E h \in StaleTickHours : now' = now + h * 3600
    /\ ticks' = ticks + 1
    /\ UNCHANGED <<alertVars, syncVars, schedVars, restVars, moreVars>>

\* No check was made yet, no monitor object exists; the files are as old as
\* StaleStart.
StalenessIdle ==
    [state_file |-> NoRow, last_alerts |-> NoRow, sent |-> {},
     csv_mtime |-> {0}, database_mtime |-> {0}, last_check |-> NoRow]

StalenessInit == staleness = StalenessIdle

(***************************************************************************)
(*       processors/validation.py and pipeline.py: deduplication           *)
(***************************************************************************)

\* deduplication_config.  0.85 is taken as the fraction 17/20; the batches
\* of the model hold no pair whose similarity is exactly the threshold.
similarity_threshold == Frac(17, 20)
match_fields == <<"name", "location", "case_number">>

\* Bound of the deduplication model: the records of a batch
MaxBatch == 3

\* record.get(field, "")
GetOrEmpty(record, field) == IF field \in DOMAIN record THEN record[field] ELSE Str(<<>>)

\* The length of the longest common prefix of a[i..] and b[j..]
RECURSIVE CommonPrefix(_, _, _, _)
CommonPrefix(a, b, i, j) ==
    IF i > Len(a) \/ j > Len(b) \/ a[i] # b[j] THEN 0
    ELSE 1 + CommonPrefix(a, b, i + 1, j + 1)

\* SequenceMatcher.find_longest_match without junk: <<i, j, k>> with
\* a[i..i+k-1] = b[j..j+k-1], k maximal, then i minimal, then j minimal;
\* <<1, 1, 0>> when no character matches.
find_longest_match(a, b) ==
    LET starts == {p \in (1..Len(a)) \X (1..Len(b)) : a[p[1]] = b[p[2]]}
        size(p) == CommonPrefix(a, b, p[1], p[2])
    IN IF starts = {} THEN <<1, 1, 0>>
       ELSE LET best == CHOOSE p \in starts : \A q \in starts :
                            \/ size(p) > size(q)
                            \/ /\ size(p) = size(q)
                               /\ \/ p[1] < q[1]
                                  \/ p[1] = q[1] /\ p[2] <= q[2]
            IN <<best[1], best[2], size(best)>>

\* The total size of SequenceMatcher.get_matching_blocks: the longest match,
\* then the same to its left and to its right.
RECURSIVE matches(_, _)
matches(a, b) ==
    IF a = <<>> \/ b = <<>> THEN 0
    ELSE LET m == find_longest_match(a, b) IN
         IF m[3] = 0 THEN 0
         ELSE m[3] + matches(SubSeq(a, 1, m[1] - 1), SubSeq(b, 1, m[2] - 1))
                   + matches(SubSeq(a, m[1] + m[3], Len(a)), SubSeq(b, m[2] + m[3], Len(b)))

\* difflib.SequenceMatcher(None, a, b).ratio() = 2.0 * matches / (len(a) + len(b))
ratio(a, b) ==
    IF Len(a) + Len(b) = 0 THEN Whole(1) ELSE Frac(2 * matches(a, b), Len(a) + Len(b))

\* _calculate_similarity: the average over match_fields
FieldSimilarity(record1, record2, field) ==
    LET val1 == strip(lower(PyStr(GetOrEmpty(record1, field))))
        val2 == strip(lower(PyStr(GetOrEmpty(record2, field))))
    IN IF val1 = <<>> \/ val2 = <<>>
       THEN (IF val1 # val2 THEN Whole(0) ELSE Whole(1))
       ELSE ratio(val1, val2)

calculate_similarity(record1, record2, fields) ==
    IF fields = <<>> THEN Whole(0)
    ELSE mean([k \in DOMAIN fields |-> FieldSimilarity(record1, record2, fields[k])])

Similar(record1, record2) ==
    FLeq(similarity_threshold, calculate_similarity(record1, record2, match_fields))

\* A sequence of the elements of a set of indices, ascending
RECURSIVE Ascending(_)
Ascending(S) ==
    IF S = {} THEN <<>>
    ELSE LET k == CHOOSE x \in S : \A y \in S : x <= y IN <<k>> \o Ascending(S \ {k})

\* detect_duplicates: the loop from index i on.  The indices are those of the
\* source plus one.
RECURSIVE DetectFrom(_, _, _)
DetectFrom(records, i, processed) ==
    IF i > Len(records) THEN <<>>
    ELSE IF i \in processed THEN DetectFrom(records, i + 1, processed)
    ELSE LET later == {j \in (i + 1)..Len(records) :
                          j \notin processed /\ Similar(records[i], records[j])}
             current_group == <<i>> \o Ascending(later)
         IN (IF Len(current_group) > 1 THEN <<current_group>> ELSE <<>>)
            \o DetectFrom(records, i + 1, processed \cup later \cup {i})

detect_duplicates(records) == DetectFrom(records, 1, {})

\* _calculate_record_completeness, in tenths
important_fields ==
    {"name", "age", "gender", "ethnicity", "city", "state",
     "date_missing", "latitude", "longitude", "case_number"}
calculate_record_completeness(record) ==
    Cardinality({f \in important_fields :
        /\ Get(record, f) # None
        /\ IsStr(Get(record, f)) => strip(Get(record, f).v) # <<>>})

\* A choice that keeps the first record of the group, whatever it holds
BestOfFirst(records, group, best_record_idx, best_completeness) == best_record_idx

\* The most complete record of a group: the first whose completeness
\* exceeds that of all before it
RECURSIVE BestOf(_, _, _, _)
BestOf(records, group, best_record_idx, best_completeness) ==
    IF group = <<>> THEN best_record_idx
    ELSE LET completeness == calculate_record_completeness(records[Head(group)]) IN
         IF completeness > best_completeness
         THEN BestOf(records, Tail(group), Head(group), completeness)
         ELSE BestOf(records, Tail(group), best_record_idx, best_completeness)

\* records_to_remove of _deduplicate_records
records_to_remove(records, duplicate_groups) ==
    UNION {{idx \in {duplicate_groups[g][k] : k \in DOMAIN duplicate_groups[g]} :
               idx # BestOf(records, duplicate_groups[g], duplicate_groups[g][1], 0)} :
           g \in DOMAIN duplicate_groups}

RECURSIVE Without(_, _, _)
Without(records, removed, i) ==
    IF i > Len(records) THEN <<>>
    ELSE (IF i \in removed THEN <<>> ELSE <<records[i]>>) \o Without(records, removed, i + 1)

\* The records a batch can hold: three records of the same location whose
\* names are Al, Ali and Li (Ali being the most complete), and another one.
DedupPool ==
    { [name |-> Str(<<"A", "l">>), location |-> Str(<<"N", "y">>)],
      [name |-> Str(<<"A", "l", "i">>), location |-> Str(<<"N", "y">>), age |-> Num(30)],
      [name |-> Str(<<"L", "i">>), location |-> Str(<<"N", "y">>)],
      [name |-> Str(<<"Z", "e", "d">>), location |-> Str(<<"L", "a">>), age |-> Num(7)] }

DedupIdle(records) ==
    [pc |-> "geocoded", records |-> records, duplicate_groups |-> <<>>, final_records |-> <<>>]

\* _deduplicate_records(geocoded_records)
DeduplicateRecords ==
    /\ dedup.pc = "geocoded"
    /\ LET duplicate_groups == detect_duplicates(dedup.records) IN
       dedup' = [dedup EXCEPT
           !.pc = "deduplicated",
           !.duplicate_groups = duplicate_groups,
           !.final_records =
               Without(dedup.records, records_to_remove(dedup.records, duplicate_groups), 1)]
    /\ UNCHANGED <<now, ticks, alertVars, syncVars, schedVars, staleness, collection, analysis, moreVars>>

DedupInit == dedup = DedupIdle(<<>>)

(***************************************************************************)
(*      incremental_updater.py: one record of the analysis loop            *)
(***************************************************************************)

\* How many records of a fetch are analyzed
MaxAnalyzed == 2

\* The records a source may return for the case: five statuses, two phones,
\* three cities (one differs from the stored one in blanks and case only)
\* and two names
AnalysisFetched ==
    {[ExistingRow EXCEPT !["status"] = Str(s), !["phone"] = Str(p),
                         !["city"] = Str(c), !["name"] = Str(n)] :
        s \in {<<"A","c","t","i","v","e">>, <<"F","o","u","n","d">>,
               <<"D","e","c","e","a","s","e","d">>, <<"R","e","s","o","l","v","e","d">>,
               <<"I","n","a","c","t","i","v","e">>},
        p \in {<<"5">>, <<"6">>},
        c \in {<<"D","a","l">>, <<" ","d","A","L">>, <<"H","o","u">>},
        n \in {<<"J","o">>, <<"J","i","m">>}}

\* existing_cases.get(case_id): the row of the case as it is, the row of a
\* case found earlier without a phone, or None for a case not in the table
AnalysisExisting ==
    {ExistingRow,
     [ExistingRow EXCEPT !["status"] = Str(<<"F","o","u","n","d">>), !["phone"] = None],
     None}

AnalysisFetch(source_record, existing_record, analyzed) ==
    [pc |-> "fetched", source_record |-> source_record,
     existing_record |-> existing_record, sync_record |-> NoRow,
     queued |-> {}, analyzed |-> analyzed]

\* The body of `for record in incremental_data`: analyze_record_changes, then
\* queue_sync_operation, whose INSERT may raise (it then returns False and
\* nothing is queued).
AnalyzeRecord ==
    /\ analysis.pc = "fetched"
    /\ \E queue_ok \in BOOLEAN :
         LET sync_record == analyze_record_changes(analysis.source_record,
                                                   analysis.existing_record)
         IN
         /\ sync_operations' = IF queue_ok
                                THEN queue_sync_operation(sync_operations, sync_record, now)
                                ELSE sync_operations
         /\ analysis' = [analysis EXCEPT
                !.pc = "analyzed",
                !.sync_record = sync_record,
                !.queued = IF queue_ok THEN {Len(sync_operations) + 1} ELSE {},
                !.analyzed = @ + 1]
    /\ UNCHANGED <<now, ticks, alertVars, source_sync_metadata, run_sync, worker,
                   main_store, executions, schedVars, staleness, collection, dedup, moreVars>>

\* The loop takes the next record of the fetch
NextFetchedRecord ==
    /\ analysis.pc = "analyzed"
    /\ analysis.analyzed < MaxAnalyzed
    /\ \E source_record \in AnalysisFetched, existing_record \in AnalysisExisting :
         analysis' = AnalysisFetch(source_record, existing_record, analysis.analyzed)
    /\ UNCHANGED <<now, ticks, alertVars, syncVars, schedVars, staleness, collection, dedup, moreVars>>

\* No fetch is being analyzed
AnalysisInit == analysis = [AnalysisFetch(ExistingRow, None, 0) EXCEPT !.pc = "idle"]

(***************************************************************************)
(*                     processors/validation.py                            *)
(***************************************************************************)

\* How many records a batch holds
MaxValidated == 2

\* float('inf'), as json.loads gives it for Infinity
Inf == [t |-> "float", v |-> "inf"]

\* bool(value) of a field value
Truthy(v) ==
    CASE v = None -> FALSE
      [] v.t = "str" -> v.v # <<>>
      [] v.t = "num" -> v.v # 0
      [] OTHER -> TRUE

\* str.upper() on one character
UpperChar(c) ==
    CASE c = "a" -> "A" [] c = "b" -> "B" [] c = "c" -> "C" [] c = "d" -> "D"
      [] c = "e" -> "E" [] c = "f" -> "F" [] c = "g" -> "G" [] c = "h" -> "H"
      [] c = "i" -> "I" [] c = "j" -> "J" [] c = "k" -> "K" [] c = "l" -> "L"
      [] c = "m" -> "M" [] c = "n" -> "N" [] c = "o" -> "O" [] c = "p" -> "P"
      [] c = "q" -> "Q" [] c = "r" -> "R" [] c = "s" -> "S" [] c = "t" -> "T"
      [] c = "u" -> "U" [] c = "v" -> "V" [] c = "w" -> "W" [] c = "x" -> "X"
      [] c = "y" -> "Y" [] c = "z" -> "Z" [] OTHER -> c
upper(chars) == [i \in 1..Len(chars) |-> UpperChar(chars[i])]
IsLetter(c) == UpperChar(c) # c \/ LowerChar(c) # c
Digits == <<"0", "1", "2", "3", "4", "5", "6", "7", "8", "9">>
IsDigit(c) == \E d \in 1..10 : Digits[d] = c
DigitVal(c) == (CHOOSE d \in 1..10 : Digits[d] = c) - 1

\* str.title(): a letter that follows a letter is lower-cased, any other
\* letter is upper-cased
title(chars) ==
    [i \in 1..Len(chars) |->
        IF i > 1 /\ IsLetter(chars[i - 1]) THEN LowerChar(chars[i]) ELSE UpperChar(chars[i])]

\* str(value) of a field value that is a str or an int
RECURSIVE Decimal(_)
Decimal(n) == IF n < 10 THEN <<Digits[n + 1]>> ELSE Decimal(n \div 10) \o <<Digits[(n % 10) + 1]>>
StrOf(v) ==
    CASE v.t = "str" -> v.v
      [] v.t = "num" -> IF v.v < 0 THEN <<"-">> \o Decimal(-v.v) ELSE Decimal(v.v)
      [] v.t = "float" -> <<"i", "n", "f">>
      [] OTHER -> <<"N", "o", "n", "e">>

\* The value of a string of digits
RECURSIVE DigitsValue(_)
DigitsValue(chars) ==
    IF chars = <<>> THEN 0
    ELSE 10 * DigitsValue(SubSeq(chars, 1, Len(chars) - 1)) + DigitVal(chars[Len(chars)])
AllDigits(chars) == chars # <<>> /\ \A i \in 1..Len(chars) : IsDigit(chars[i])

\* int(value): [v |-> n], or [exc |-> the exception raised].  A str is
\* stripped and may carry a sign.
int_of(value) ==
    CASE value = None -> [exc |-> "TypeError"]
      [] value.t = "num" -> [v |-> value.v]
      [] value.t = "float" -> [exc |-> "OverflowError"]
      [] OTHER ->
           LET text == strip(value.v)
               signed == text # <<>> /\ Head(text) \in {"-", "+"}
               body == IF signed THEN Tail(text) ELSE text
           IN IF AllDigits(body)
              THEN [v |-> IF signed /\ Head(text) = "-" THEN -DigitsValue(body)
                                                        ELSE DigitsValue(body)]
              ELSE [exc |-> "ValueError"]

\* float(value): as int(value) on the whole numbers of the model, and inf
\* for float('inf')
float_of(value) ==
    IF value.t = "float" THEN [v |-> Inf] ELSE
    LET r == int_of(value) IN IF "v" \in DOMAIN r THEN [v |-> Num(r.v)] ELSE r

\* clean_record: the cleaned copy, or [exc |-> ...] when a statement of it
\* raises (record.copy() on an item that is no dict; int() and float() raise
\* OverflowError, which `except (ValueError, TypeError)` does not catch).
string_fields == {"name", "city", "county", "state", "gender", "ethnicity", "description"}
clean_record(record) ==
    IF ~IsDict(record) THEN [exc |-> "AttributeError"]
    ELSE
    LET Has(f) == f \in DOMAIN record /\ Truthy(record[f])
        age == IF Has("age") THEN int_of(record["age"]) ELSE [v |-> 0]
        Coord(f) == IF Has(f) THEN float_of(record[f]) ELSE [v |-> None]
        Uncaught(r) == "exc" \in DOMAIN r /\ r.exc \notin {"ValueError", "TypeError"}
    IN
    IF Uncaught(age) THEN [exc |-> age.exc]
    ELSE IF Uncaught(Coord("latitude")) THEN [exc |-> Coord("latitude").exc]
    ELSE IF Uncaught(Coord("longitude")) THEN [exc |-> Coord("longitude").exc]
    ELSE
    [f \in DOMAIN record |->
        IF ~Truthy(record[f]) THEN record[f]
        ELSE IF f = "state" THEN Str(upper(strip(title(strip(StrOf(record[f]))))))
        ELSE IF f \in string_fields THEN Str(title(strip(StrOf(record[f]))))
        ELSE IF f = "case_number" THEN Str(upper(strip(StrOf(record[f]))))
        ELSE IF f = "age" THEN (IF "v" \in DOMAIN age THEN Num(age.v) ELSE None)
        ELSE IF f \in {"latitude", "longitude"}
             THEN (IF "v" \in DOMAIN Coord(f) THEN Coord(f).v ELSE None)
        ELSE record[f]]

\* The rules: "valid", "invalid", or "raises" when validate lets an
\* exception out.
RequiredFieldRule(field, record) ==
    LET value == Get(record, field) IN
    IF ~Truthy(value) \/ strip(StrOf(value)) = <<>> THEN "invalid" ELSE "valid"

AgeRangeRule(record) ==
    LET age == Get(record, "age") IN
    IF age = None THEN "valid"
    ELSE LET r == int_of(age) IN
         IF "v" \in DOMAIN r THEN (IF 0 <= r.v /\ r.v <= 120 THEN "valid" ELSE "invalid")
         ELSE IF r.exc \in {"ValueError", "TypeError"} THEN "invalid"
         ELSE "raises"

VALID_STATES ==
    {<<"A","L">>, <<"A","K">>, <<"A","Z">>, <<"A","R">>, <<"C","A">>, <<"C","O">>,
     <<"C","T">>, <<"D","E">>, <<"F","L">>, <<"G","A">>, <<"H","I">>, <<"I","D">>,
     <<"I","L">>, <<"I","N">>, <<"I","A">>, <<"K","S">>, <<"K","Y">>, <<"L","A">>,
     <<"M","E">>, <<"M","D">>, <<"M","A">>, <<"M","I">>, <<"M","N">>, <<"M","S">>,
     <<"M","O">>, <<"M","T">>, <<"N","E">>, <<"N","V">>, <<"N","H">>, <<"N","J">>,
     <<"N","M">>, <<"N","Y">>, <<"N","C">>, <<"N","D">>, <<"O","H">>, <<"O","K">>,
     <<"O","R">>, <<"P","A">>, <<"R","I">>, <<"S","C">>, <<"S","D">>, <<"T","N">>,
     <<"T","X">>, <<"U","T">>, <<"V","T">>, <<"V","A">>, <<"W","A">>, <<"W","V">>,
     <<"W","I">>, <<"W","Y">>, <<"D","C">>}
StateCodeRule(record) ==
    LET state == Get(record, "state") IN
    IF ~Truthy(state) THEN "invalid"
    ELSE IF upper(strip(StrOf(state))) \in VALID_STATES THEN "valid" ELSE "invalid"

\* datetime.now().year
current_year == 2026
\* DateFormatRule: of DATE_FORMATS the two written with digits and dashes,
\* '%Y-%m-%d' and '%m-%d-%Y', in their fixed-width form; any other text of
\* the model is accepted by no format.  The year parsed, or {} (ValueError
\* for every format).
strptime_year(text) ==
    LET Field(a, b) == SubSeq(text, a, b)
        Dashes(i, j) == text[i] = "-" /\ text[j] = "-"
        Leap(y) == y % 4 = 0 /\ (y % 100 # 0 \/ y % 400 = 0)
        DaysIn(m, y) == IF m = 2 THEN (IF Leap(y) THEN 29 ELSE 28)
                        ELSE IF m \in {4, 6, 9, 11} THEN 30 ELSE 31
        IsDate(y, m, d) ==
            /\ AllDigits(y) /\ AllDigits(m) /\ AllDigits(d)
            /\ DigitsValue(y) >= 1
            /\ DigitsValue(m) \in 1..12
            /\ DigitsValue(d) \in 1..DaysIn(DigitsValue(m), DigitsValue(y))
    IN
    IF Len(text) # 10 THEN {}
    ELSE IF Dashes(5, 8) /\ IsDate(Field(1, 4), Field(6, 7), Field(9, 10))
    THEN {DigitsValue(Field(1, 4))}
    ELSE IF Dashes(3, 6) /\ IsDate(Field(7, 10), Field(1, 2), Field(4, 5))
    THEN {DigitsValue(Field(7, 10))}
    ELSE {}
DateFormatRule(field, record) ==
    LET date_value == Get(record, field) IN
    IF ~Truthy(date_value) \/ strip(StrOf(date_value)) = <<>> THEN "valid"
    ELSE LET years == strptime_year(strip(StrOf(date_value))) IN
         IF years = {} THEN "invalid"
         ELSE IF \E y \in years : y > current_year + 1 \/ y < 1900 THEN "invalid"
         ELSE "valid"

\* CoordinateRule with the default us_bounds
CoordinateRule(record) ==
    LET lat == Get(record, "latitude")
        lon == Get(record, "longitude")
    IN
    IF (lat = None) # (lon = None) THEN "invalid"
    ELSE IF lat = None THEN "valid"
    ELSE LET a == float_of(lat)
             b == float_of(lon)
             Raised(r) == "exc" \in DOMAIN r
         IN
         IF Raised(a) THEN (IF a.exc \in {"ValueError", "TypeError"} THEN "invalid" ELSE "raises")
         ELSE IF Raised(b) THEN (IF b.exc \in {"ValueError", "TypeError"} THEN "invalid" ELSE "raises")
         ELSE IF a.v.t = "float" \/ b.v.t = "float" THEN "invalid"
         ELSE IF ~(24 <= a.v.v /\ a.v.v <= 49) THEN "invalid"
         ELSE IF ~(-125 <= b.v.v /\ b.v.v <= -66) THEN "invalid"
         ELSE "valid"

\* CaseNumberRule: ^[A-Za-z0-9\-_]+$ on the stripped text
CaseNumberRule(record) ==
    LET case_number == Get(record, "case_number") IN
    IF ~Truthy(case_number) THEN "invalid"
    ELSE LET case_str == strip(StrOf(case_number)) IN
         IF case_str = <<>> THEN "invalid"
         ELSE IF \A i \in 1..Len(case_str) :
                    IsLetter(case_str[i]) \/ IsDigit(case_str[i]) \/ case_str[i] \in {"-", "_"}
         THEN "valid" ELSE "invalid"

\* _setup_validation_rules with the default configuration: name, weight in
\* halves, and the outcome on the record
rules(record) ==
    << [name |-> "required_name", weight |-> 4, outcome |-> RequiredFieldRule("name", record)],
       [name |-> "required_case_number", weight |-> 4,
        outcome |-> RequiredFieldRule("case_number", record)],
       [name |-> "age_range", weight |-> 2, outcome |-> AgeRangeRule(record)],
       [name |-> "state_code", weight |-> 2, outcome |-> StateCodeRule(record)],
       [name |-> "date_format_date_missing", weight |-> 2,
        outcome |-> DateFormatRule("date_missing", record)],
       [name |-> "date_format_date_reported", weight |-> 2,
        outcome |-> DateFormatRule("date_reported", record)],
       [name |-> "coordinates", weight |-> 2, outcome |-> CoordinateRule(record)],
       [name |-> "case_number", weight |-> 3, outcome |-> CaseNumberRule(record)] >>

\* _assess_data_completeness: completeness_score, in percent
assess_data_completeness(record) ==
    10 * Cardinality({f \in {"name", "age", "gender", "ethnicity", "city", "state",
                             "date_missing", "latitude", "longitude", "description"} :
                         Get(record, f) # None /\ strip(StrOf(Get(record, f))) # <<>>})

\* validate_record, after the loop over the rules: the ValidationResult for
\* the outcomes rs of the rules on the record
ValidationResult(rs, record) ==
    LET failed == {k \in DOMAIN rs : rs[k].outcome = "invalid"} IN
    [is_valid |-> failed = {},
     errors |-> {rs[k].name : k \in failed},
     quality_score |->
         Frac(SumSeq([k \in DOMAIN rs |-> IF k \in failed THEN 0 ELSE rs[k].weight]),
              SumSeq([k \in DOMAIN rs |-> rs[k].weight])),
     completeness_score |-> assess_data_completeness(record)]

\* The loop of validate_record over the outcomes rs: rule.validate is called
\* outside any try, so what a rule raises leaves validate_record.
ApplyRules(rs, record) ==
    IF \E k \in DOMAIN rs : rs[k].outcome = "raises" THEN [exc |-> "OverflowError"]
    ELSE ValidationResult(rs, record)

\* validate_record: the results, or [exc |-> ...]
validate_record(record) == ApplyRules(rules(record), record)

\* batch_validate from record i on: [results |-> ...] when the loop ends,
\* [exc |-> ...] when clean_record or validate_record raises (nothing in the
\* loop catches it).  BatchValidated is the loop body after
\* validate_record(cleaned_record), BatchCleaned after clean_record(record).
RECURSIVE batch_validate_from(_, _, _)
BatchValidated(records, i, results, cleaned_record, validation_result) ==
    IF "exc" \in DOMAIN validation_result THEN validation_result
    ELSE batch_validate_from(records, i + 1,
             Append(results, [validation_result |-> validation_result,
                              record |-> cleaned_record,
                              original_index |-> i - 1]))
BatchCleaned(records, i, results, cleaned_record) ==
    IF "exc" \in DOMAIN cleaned_record THEN cleaned_record
    ELSE BatchValidated(records, i, results, cleaned_record, validate_record(cleaned_record))
batch_validate_from(records, i, results) ==
    IF i > Len(records) THEN [results |-> results]
    ELSE BatchCleaned(records, i, results, clean_record(records[i]))
batch_validate(records) == batch_validate_from(records, 1, <<>>)

\* The records of a batch: what the collectors hand over from the sources'
\* JSON and CSV
ValidationPool ==
    LET Jo == [name |-> Str(<<"j","o">>), case_number |-> Str(<<"a","1">>),
               state |-> Str(<<"t","x">>), age |-> Str(<<"3","0">>)]
    IN {Jo,
        [Jo EXCEPT !["age"] = Num(150)],
        [Jo EXCEPT !["age"] = Str(<<"a","b","c">>)],
        [Jo EXCEPT !["age"] = Inf],
        [Jo EXCEPT !["state"] = Str(<<"z","z">>)],
        [Jo EXCEPT !["name"] = Str(<<" ">>)],
        [Jo EXCEPT !["case_number"] = Str(<<"a"," ","1">>)],
        [name |-> Str(<<"j","o">>), case_number |-> Str(<<"a","1">>), state |-> Str(<<"t","x">>),
         date_missing |-> Str(<<"1","8","9","9","-","0","1","-","0","2">>)],
        [name |-> Str(<<"j","o">>), case_number |-> Str(<<"a","1">>), state |-> Str(<<"t","x">>),
         date_missing |-> Str(<<"0","1","-","0","2","-","2","0","2","0">>),
         latitude |-> Num(30), longitude |-> Str(<<"-","1","0","0">>)],
        [name |-> Str(<<"j","o">>), case_number |-> Str(<<"a","1">>), state |-> Str(<<"t","x">>),
         latitude |-> Num(30)],
        Str(<<"x">>)}

ValidationIdle(records) == [pc |-> "collected", records |-> records, returned |-> NoRow]

\* validation_results = self.validator.batch_validate(records, progress_callback)
BatchValidate ==
    /\ validation.pc = "collected"
    /\ LET returned == batch_validate(validation.records) IN
       validation' = [validation EXCEPT
           !.pc = IF "exc" \in DOMAIN returned THEN "raised" ELSE "validated",
           !.returned = returned]
    /\ UNCHANGED <<now, ticks, alertVars, syncVars, schedVars, restVars, database, monitoring>>

ValidationInit == validation = ValidationIdle(<<>>)

(***************************************************************************)
(*                          utils/database.py                              *)
(***************************************************************************)

\* How many upsert_missing_person calls are made, and clock advances
MaxUpserts == 3
MaxDbTicks == 1

\* A value bound to a column of TEXT affinity is stored as text
TextAffinity(v) == IF v = None THEN None ELSE Str(StrOf(v))

\* SQL `column = ?`: never true when either side is NULL
SqlEquals(column, parameter) ==
    column # None /\ parameter # None /\ column = TextAffinity(parameter)

\* The records _save_to_database hands over: the namus normalizer sets
\* source_id, the other collectors set source_name only
UpsertPool ==
    {[source_name |-> Str(<<"n","a","m","u","s">>), source_id |-> Str(<<"7">>),
      name |-> Str(<<"A","l">>)],
     [source_name |-> Str(<<"n","a","m","u","s">>), source_id |-> Num(7),
      name |-> Str(<<"A","l","i">>)],
     [source_name |-> Str(<<"n","a","m","u","s">>), source_id |-> Str(<<"8">>),
      name |-> Str(<<"J","o">>)],
     [source_name |-> Str(<<"f","l","o","r","i","d","a","_","m","e","p","i","c">>),
      name |-> Str(<<"J","o">>)]}

\* SELECT id FROM missing_persons_enhanced WHERE source_name = ? AND source_id = ?
SelectExisting(rows, record) ==
    {k \in DOMAIN rows : /\ SqlEquals(rows[k].source_name, Get(record, "source_name"))
                         /\ SqlEquals(rows[k].source_id, Get(record, "source_id"))}

\* upsert_missing_person: the table after the call and the (record_id,
\* was_inserted) it returns.  UNIQUE(source_name, source_id) never rejects
\* the INSERT: the SELECT found no row with both columns equal, and rows
\* with a NULL in the key do not conflict.
upsert_missing_person(rows, record, t) ==
    LET existing == SelectExisting(rows, record) IN
    IF existing # {}
    THEN LET id == CHOOSE k \in existing : \A j \in existing : k <= j IN
         [rows |-> [rows EXCEPT ![id] = [@ EXCEPT !.name = TextAffinity(Get(record, "name")),
                                                  !.last_verified = t]],
          record_id |-> id, was_inserted |-> FALSE]
    ELSE [rows |-> Append(rows, [id |-> Len(rows) + 1,
                                 source_name |-> TextAffinity(Get(record, "source_name")),
                                 source_id |-> TextAffinity(Get(record, "source_id")),
                                 name |-> TextAffinity(Get(record, "name")),
                                 last_verified |-> t]),
          record_id |-> Len(rows) + 1, was_inserted |-> TRUE]

\* One iteration of _save_to_database
UpsertMissingPerson ==
    /\ Len(database.calls) < MaxUpserts
    /\ \E record \in UpsertPool :
         LET r == upsert_missing_person(database.missing_persons_enhanced, record, now) IN
         database' = [missing_persons_enhanced |-> r.rows,
                      calls |-> Append(database.calls,
                                       [record |-> record, record_id |-> r.record_id,
                                        was_inserted |-> r.was_inserted])]
    /\ UNCHANGED <<now, ticks, alertVars, syncVars, schedVars, restVars, validation, monitoring>>

DatabaseTick ==
    /\ ticks < MaxDbTicks
    /\ now' = now + 1
    /\ ticks' = ticks + 1
    /\ UNCHANGED <<alertVars, syncVars, schedVars, restVars, moreVars>>

\* init_pipeline_tables on a new file
DatabaseInit == database = [missing_persons_enhanced |-> <<>>, calls |-> <<>>]

\* ---- monitoring_alerting.py: start_monitoring / stop_monitoring

\* Bounds of the monitoring model
MaxMonitorCalls == 3
MaxMonitorTicks == 3

\* start_monitoring(interval_seconds=300); join(timeout=10)
interval_seconds == 300
join_timeout == 10

MonitoringCallerIdle == [pc |-> "idle", deadline |-> 0]

\* The threads created by start_monitoring, alive or not: threads[th].pc is
\* the position of thread th inside monitoring_loop ("test" is the `while`
\* test), wake the time its sleep ends, tested the number of threads that
\* existed when it last found monitoring_active true.
IsAlive(th) == monitoring.threads[th].pc # "exited"

\* start_monitoring
StartMonitoring ==
    /\ monitoring.caller.pc = "idle"
    /\ monitoring.calls < MaxMonitorCalls
    /\ monitoring' =
          IF monitoring.monitoring_active
          THEN [monitoring EXCEPT !.calls = @ + 1]          \* "Monitoring already active"
          ELSE [monitoring EXCEPT
                  !.calls = @ + 1,
                  !.monitoring_active = TRUE,
                  !.threads = Append(@, [pc |-> "test", wake |-> now, tested |-> 0]),
                  !.monitoring_thread = {Len(monitoring.threads) + 1}]
    /\ UNCHANGED <<now, ticks, alertVars, syncVars, schedVars, restVars, validation, database>>

\* stop_monitoring up to the join: the flag is cleared; the caller waits in
\* join(timeout=10) if the thread of the last start is alive.
StopMonitoring ==
    /\ monitoring.caller.pc = "idle"
    /\ monitoring.calls < MaxMonitorCalls
    /\ monitoring' =
          [monitoring EXCEPT
             !.calls = @ + 1,
             !.monitoring_active = FALSE,
             !.caller = IF \E th \in monitoring.monitoring_thread : IsAlive(th)
                        THEN [pc |-> "join", deadline |-> now + join_timeout]
                        ELSE MonitoringCallerIdle]
    /\ UNCHANGED <<now, ticks, alertVars, syncVars, schedVars, restVars, validation, database>>

\* stop_monitoring, the join returns: the thread has ended or the timeout
\* has passed.
StopMonitoringReturn ==
    /\ monitoring.caller.pc = "join"
    /\ \/ \A th \in monitoring.monitoring_thread : ~IsAlive(th)
       \/ now >= monitoring.caller.deadline
    /\ monitoring' = [monitoring EXCEPT !.caller = MonitoringCallerIdle]
    /\ UNCHANGED <<now, ticks, alertVars, syncVars, schedVars, restVars, validation, database>>

\* monitoring_loop, `while self.monitoring_active`
LoopTest(th) ==
    /\ monitoring.threads[th].pc = "test"
    /\ monitoring' =
          IF monitoring.monitoring_active
          THEN [monitoring EXCEPT !.threads[th].pc = "cycle",
                                  !.threads[th].tested = Len(monitoring.threads)]
          ELSE [monitoring EXCEPT !.threads[th].pc = "exited"]
    /\ UNCHANGED <<now, ticks, alertVars, syncVars, schedVars, restVars, validation, database>>

\* monitoring_loop, self.run_monitoring_cycle() and the start of
\* time.sleep(interval_seconds)
LoopCycle(th) ==
    /\ monitoring.threads[th].pc = "cycle"
    /\ monitoring' = [monitoring EXCEPT !.threads[th].pc = "sleep",
                                        !.threads[th].wake = now + interval_seconds]
    /\ UNCHANGED <<now, ticks, alertVars, syncVars, schedVars, restVars, validation, database>>

\* monitoring_loop, time.sleep returns
LoopWake(th) ==
    /\ monitoring.threads[th].pc = "sleep"
    /\ now >= monitoring.threads[th].wake
    /\ monitoring' = [monitoring EXCEPT !.threads[th].pc = "test"]
    /\ UNCHANGED <<now, ticks, alertVars, syncVars, schedVars, restVars, validation, database>>

\* The times at which a sleep or the join ends
MonitoringTimers ==
    {monitoring.threads[th].wake : th \in {x \in DOMAIN monitoring.threads :
                                              monitoring.threads[x].pc = "sleep"}}
    \cup (IF monitoring.caller.pc = "join" THEN {monitoring.caller.deadline} ELSE {})

\* The clock advances to the next of these times
MonitoringTick ==
    /\ ticks < MaxMonitorTicks
    /\ \E t \in MonitoringTimers :
          /\ t > now
          /\ \A u \in MonitoringTimers : u > now => t <= u
          /\ now' = t
    /\ ticks' = ticks + 1
    /\ UNCHANGED <<alertVars, syncVars, schedVars, restVars, moreVars>>

\* __init__: monitoring_thread = None, monitoring_active = False
MonitoringInit ==
    monitoring = [monitoring_active |-> FALSE, monitoring_thread |-> {}, threads |-> <<>>,
                  caller |-> MonitoringCallerIdle, calls |-> 0]

MoreInit ==
    /\ ValidationInit
    /\ DatabaseInit
    /\ MonitoringInit

RestInit ==
    /\ StalenessInit
    /\ CollectionInit
    /\ DedupInit
    /\ AnalysisInit
    /\ MoreInit

InitAlert == now = 0 /\ ticks = 0 /\ AlertInit /\ SyncInit /\ SchedInit /\ RestInit

NextAlert ==
    \/ \E c \in AlertCallers : CreateAlertBegin(c)
    \/ \E c \in AlertCallers : CreateAlertCheckDuplicate(c)
    \/ \E c \in AlertCallers : CreateAlertCheckRate(c)
    \/ \E c \in AlertCallers : CreateAlertInsert(c)
    \/ \E c \in AlertCallers : CreateAlertNotify(c)
    \/ AlertTick

SpecAlert == InitAlert /\ [][NextAlert]_vars

\* SpecSync: one process running synchronization cycles, each with the queue
\* processing it calls.
InitSync == now = 0 /\ ticks = 0 /\ AlertInit /\ SyncInit /\ SchedInit /\ RestInit

NextSync ==
    \/ RunIncrementalSyncBegin
    \/ RunSourcePass
    \/ RunAfterLoop
    \/ ProcessSelect("run_incremental_sync")
    \/ ProcessExecute("run_incremental_sync")
    \/ ProcessMark("run_incremental_sync")
    \/ ProcessCommit("run_incremental_sync")
    \/ SyncTick

SpecSync == InitSync /\ [][NextSync]_vars

\* SpecQueue: the same with a second process on the same databases, the
\* command line's --process-queue, and either process stopping at any point
\* of process_sync_queue.
NextQueue ==
    \/ RunIncrementalSyncBegin
    \/ RunSourcePass
    \/ RunAfterLoop
    \/ \E w \in Workers : ProcessSelect(w)
    \/ \E w \in Workers : ProcessExecute(w)
    \/ \E w \in Workers : ProcessMark(w)
    \/ \E w \in Workers : ProcessCommit(w)
    \/ \E w \in Workers : ProcessCrash(w)
    \/ SyncTick

SpecQueue == InitSync /\ [][NextQueue]_vars

\* SpecSched: a call of update_all_schedules over sources with a history of
\* samples, while samples are recorded.
InitSched ==
    /\ now = SchedStart
    /\ ticks = 0
    /\ AlertInit
    /\ SyncInit
    /\ \E h \in [1..Len(sources) -> UNION {SourceHistories(sources[k]) : k \in DOMAIN sources}] :
          /\ \A k \in DOMAIN sources : h[k] \in SourceHistories(sources[k])
          /\ source_metrics_history = h[1] \o h[2] \o h[3]
    /\ schedule_recommendations = <<>>
    /\ update_run = UpdateIdle
    /\ source_metrics = NoRow
    /\ recommendation = NoRow
    /\ RestInit

NextSched ==
    \/ RecordSourceMetrics
    \/ UpdateAllSchedulesBegin
    \/ UpdateSource
    \/ UpdateAllSchedulesReturn
    \/ SchedTick

SpecSched == InitSched /\ [][NextSched]_vars

\* SpecRecommend: calculate_adaptive_frequency applied to a SourceMetrics
InitRecommend ==
    /\ now \in {SchedStart, SchedStart + 3600}
    /\ ticks = 0
    /\ AlertInit
    /\ SyncInit
    /\ source_metrics_history = <<>>
    /\ schedule_recommendations = <<>>
    /\ update_run = UpdateIdle
    /\ source_metrics \in SourceMetricsInputs
    /\ recommendation = NoRow
    /\ RestInit

NextRecommend == Recommend

SpecRecommend == InitRecommend /\ [][NextRecommend]_vars

\* SpecSchedules: update_all_schedules called time and again on an empty
\* metrics history, the clock advancing or not between two calls.
InitSchedules == now = SchedStart /\ ticks = 0 /\ AlertInit /\ SyncInit /\ SchedInit /\ RestInit

NextSchedules ==
    \/ UpdateAllSchedulesBegin
    \/ UpdateSource
    \/ UpdateAllSchedulesReturn
    \/ UpdateAllSchedulesAgain
    \/ SchedTick

SpecSchedules == InitSchedules /\ [][NextSchedules]_vars

\* SpecCollect: one run of the parallel collection step, the scheduler's
\* metrics history being empty.
InitCollect == now = 0 /\ ticks = 0 /\ AlertInit /\ SyncInit /\ SchedInit /\ RestInit

NextCollect ==
    \/ CollectFromAllSourcesBegin
    \/ \E c \in collectors : CollectorReturns(c)
    \/ \E c \in collectors : CollectorRaises(c)
    \/ CollectNextCompleted
    \/ CollectFromAllSourcesReturn
    \/ CollectTick

SpecCollect == InitCollect /\ [][NextCollect]_vars

\* SpecAlertRate: create_alert called by the two callers when the alerts
\* table already holds max_alerts_per_hour - 1 alerts of the last hour, all of
\* them older than the cooldown and of different (alert_type, source).
EarlierAlertKinds ==
    <<<<"cpu_usage_percent", "system_monitor">>, <<"cpu_usage_percent", "system">>,
      <<"cpu_usage_percent", "namus">>, <<"data_freshness_hours", "system_monitor">>,
      <<"data_freshness_hours", "system">>, <<"data_freshness_hours", "namus">>,
      <<"error_rate_percent", "system_monitor">>, <<"error_rate_percent", "system">>,
      <<"error_rate_percent", "namus">>>>

EarlierAlerts ==
    {NewAlert(EarlierAlertKinds[k][1], EarlierAlertKinds[k][2], "critical", 100 * k) :
        k \in 1..(max_alerts_per_hour - 1)}

InitAlertRate ==
    /\ now = 3600
    /\ ticks = 0
    /\ alerts = EarlierAlerts
    /\ alert_notifications = {}
    /\ create_alert_pc = [c \in AlertCallers |-> "idle"]
    /\ create_alert_arg = [c \in AlertCallers |-> NoRow]
    /\ alert_calls = 0
    /\ SyncInit
    /\ SchedInit
    /\ RestInit

SpecAlertRate == InitAlertRate /\ [][NextAlert]_vars

\* SpecStale: freshness checks by the scheduler and by the command line on
\* data files of several ages.
InitStale ==
    /\ now = StaleStart
    /\ ticks = 0
    /\ AlertInit
    /\ SyncInit
    /\ SchedInit
    /\ CollectionInit
    /\ DedupInit
    /\ AnalysisInit
    /\ MoreInit
    /\ \E csv_mtime \in {{}, {now}, {now - 23 * 3600}},
          database_mtime \in {{}, {now}, {now - 58 * 3600}} :
          staleness = [StalenessIdle EXCEPT !.csv_mtime = csv_mtime,
                                            !.database_mtime = database_mtime]

NextStale ==
    \/ SchedulerStart
    \/ SchedulerCheck
    \/ CommandLineCheck
    \/ UpdateDataTimestamps
    \/ StaleTick

SpecStale == InitStale /\ [][NextStale]_vars

\* SpecNotify: create_alert called by the two callers after one earlier call
\* at time 0, whose alert is in the tables with its notification rows; the
\* clock was advanced once since.
FirstAlert == NewAlert("cpu_usage_percent", "system_monitor", "critical", 0)

InitNotify ==
    /\ now = alert_cooldown_minutes * 60
    /\ ticks = 1
    /\ alerts = {FirstAlert}
    /\ alert_notifications =
          send_alert_notifications({}, FirstAlert, notification_channels,
                                   [k \in 1..Len(notification_channels) |-> "True"])
    /\ create_alert_pc = [c \in AlertCallers |-> "idle"]
    /\ create_alert_arg = [c \in AlertCallers |-> NoRow]
    /\ alert_calls = 1
    /\ SyncInit
    /\ SchedInit
    /\ RestInit

SpecNotify == InitNotify /\ [][NextAlert]_vars

\* SpecDedup: _deduplicate_records applied to a batch
InitDedup ==
    /\ now = 0
    /\ ticks = 0
    /\ AlertInit
    /\ SyncInit
    /\ SchedInit
    /\ StalenessInit
    /\ CollectionInit
    /\ AnalysisInit
    /\ MoreInit
    /\ \E records \in SeqsUpTo(DedupPool, MaxBatch) : dedup = DedupIdle(records)

NextDedup == DeduplicateRecords

SpecDedup == InitDedup /\ [][NextDedup]_vars

\* SpecAnalyze: the records of a fetch analyzed and queued one by one
InitAnalyze ==
    /\ now = 0
    /\ ticks = 0
    /\ AlertInit
    /\ SyncInit
    /\ SchedInit
    /\ StalenessInit
    /\ CollectionInit
    /\ DedupInit
    /\ MoreInit
    /\ \E source_record \in AnalysisFetched, existing_record \in AnalysisExisting :
         analysis = AnalysisFetch(source_record, existing_record, 0)

NextAnalyze == AnalyzeRecord \/ NextFetchedRecord

SpecAnalyze == InitAnalyze /\ [][NextAnalyze]_vars

\* SpecValidate: batch_validate applied to a collected batch
InitValidate ==
    /\ now = 0
    /\ ticks = 0
    /\ AlertInit
    /\ SyncInit
    /\ SchedInit
    /\ StalenessInit
    /\ CollectionInit
    /\ DedupInit
    /\ AnalysisInit
    /\ DatabaseInit
    /\ MonitoringInit
    /\ \E records \in SeqsUpTo(ValidationPool, MaxValidated) :
         validation = ValidationIdle(records)

NextValidate == BatchValidate

SpecValidate == InitValidate /\ [][NextValidate]_vars

\* SpecUpsert: upsert_missing_person called for the records of a run
InitUpsert == now = 0 /\ ticks = 0 /\ AlertInit /\ SyncInit /\ SchedInit /\ RestInit

NextUpsert == UpsertMissingPerson \/ DatabaseTick

SpecUpsert == InitUpsert /\ [][NextUpsert]_vars

\* SpecBacklog: the command line's --process-queue on a queue that earlier
\* cycles left longer than one batch.  The backlog holds the skip of an
\* unchanged record and batch_size - 1 inserts, queued one per second and all
\* pending, then two rows queued by one later pass, the second of them possibly
\* processed already.
Backlog ==
    [k \in 1..batch_size |->
        [SyncRow(<<>>, IF k = 1 THEN analyze_record_changes(ExistingRow, ExistingRow)
                      ELSE analyze_record_changes([id |-> Str(Decimal(k))], None), k)
            EXCEPT !.id = k]]

BacklogTail == {SyncRecordOf[record] : record \in DOMAIN SyncRecordOf}

InitBacklog ==
    /\ now = batch_size + 1
    /\ ticks = 0
    /\ AlertInit
    /\ SchedInit
    /\ RestInit
    /\ \E first, second \in BacklogTail : \E done \in BOOLEAN :
          LET queued == queue_sync_operation(
                            queue_sync_operation(Backlog, first, batch_size), second, batch_size)
              last == Len(queued) IN
          /\ sync_operations =
                IF done THEN mark_operation_processed(queued, last,
                                 execute_sync_operation(queued[last]), now)
                ELSE queued
          /\ executions = [k \in 1..last |-> IF done /\ k = last THEN 1 ELSE 0]
          /\ main_store = IF done THEN {last} ELSE {}
    /\ source_sync_metadata = [s \in source_configs |-> NoRow]
    /\ run_sync = RunIdle
    /\ worker = [w \in Workers |-> WorkerIdle]

NextBacklog ==
    \/ ProcessSelect("process_queue_cli")
    \/ ProcessExecute("process_queue_cli")
    \/ ProcessMark("process_queue_cli")
    \/ ProcessCommit("process_queue_cli")

SpecBacklog == InitBacklog /\ [][NextBacklog]_vars

\* SpecQueueLive: synchronization cycles and the command line's
\* --process-queue called again and again on the same databases, no process
\* stopping.  A process that can take its next step takes it; the command
\* line is run again whenever its last run has returned.
NextQueueLive ==
    \/ RunIncrementalSyncBegin
    \/ RunSourcePass
    \/ RunAfterLoop
    \/ \E w \in Workers : ProcessSelect(w)
    \/ \E w \in Workers : ProcessExecute(w)
    \/ \E w \in Workers : ProcessMark(w)
    \/ \E w \in Workers : ProcessCommit(w)
    \/ SyncTick

FairQueue ==
    /\ WF_vars(RunSourcePass)
    /\ WF_vars(RunAfterLoop)
    /\ \A w \in Workers :
          /\ WF_vars(ProcessSelect(w))
          /\ WF_vars(ProcessExecute(w))
          /\ WF_vars(ProcessMark(w))
          /\ WF_vars(ProcessCommit(w))

SpecQueueLive == InitSync /\ [][NextQueueLive]_vars /\ FairQueue

\* SpecMonitor: a main thread calling start_monitoring and stop_monitoring
\* in any order, and the monitoring threads it has started
InitMonitor == now = 0 /\ ticks = 0 /\ AlertInit /\ SyncInit /\ SchedInit /\ RestInit

NextMonitor ==
    \/ StartMonitoring
    \/ StopMonitoring
    \/ StopMonitoringReturn
    \/ \E th \in DOMAIN monitoring.threads : LoopTest(th)
    \/ \E th \in DOMAIN monitoring.threads : LoopCycle(th)
    \/ \E th \in DOMAIN monitoring.threads : LoopWake(th)
    \/ MonitoringTick

SpecMonitor == InitMonitor /\ [][NextMonitor]_vars

(***************************************************************************)
(*                              Properties                                 *)
(***************************************************************************)

\* ---------------------------------------------------------------- alerts

\* C1: the alert store never holds two active alerts of the same
\* (alert_type, source) created less than the cooldown window apart.
C1_NoTwoActiveWithinCooldown ==
    \A a, b \in alerts :
        (/\ a # b
         /\ a.alert_type = b.alert_type
         /\ a.source = b.source
         /\ a.status = "active"
         /\ b.status = "active")
        => \/ a.created_at - b.created_at >= alert_cooldown_minutes * 60
           \/ b.created_at - a.created_at >= alert_cooldown_minutes * 60

\* ------------------------------------------------------------ sync queue

PendingRows == {k \in 1..Len(sync_operations) : sync_operations[k].processed_at = NULL}

\* C2 as stated: the queue holds at most one pending operation per case_id.
C2_AtMostOnePendingPerCase ==
    \A j, k \in PendingRows :
        sync_operations[j].case_id = sync_operations[k].case_id => j = k

\* A step that is a per-source pass of run_incremental_sync
IsSourcePass == run_sync.pc = "source_loop" /\ run_sync'.idx = run_sync.idx + 1

\* C2, amended: queueing never coalesces.  A per-source pass adds one pending
\* row for each operation it queued, and no step removes or replaces a row of
\* the queue: a row changes only by being marked processed.
C2_QueueingAppends ==
    [][/\ Len(sync_operations') >= Len(sync_operations)
       /\ \A k \in 1..Len(sync_operations) :
             \/ sync_operations'[k] = sync_operations[k]
             \/ /\ sync_operations[k].processed_at = NULL
                /\ sync_operations'[k] =
                      [sync_operations[k] EXCEPT
                          !.processed_at = sync_operations'[k].processed_at,
                          !.result = sync_operations'[k].result]
                /\ sync_operations'[k].processed_at # NULL
       /\ \A k \in (Len(sync_operations) + 1)..Len(sync_operations') :
             sync_operations'[k].processed_at = NULL
       /\ IsSourcePass =>
             Len(sync_operations') - Len(sync_operations) =
                run_sync'.source_results[Len(run_sync'.source_results)].stats.operations_queued
      ]_vars

\* C2, the case it is about: a case has two pending operations, one queued
\* while the other was pending.
C2_TwoPendingForOneCase ==
    \E j, k \in PendingRows :
        j < k /\ sync_operations[j].case_id = sync_operations[k].case_id

\* The positions of worker w's selection that it has executed so far
Executed(w) ==
    IF worker[w].pc = "mark" THEN 1..worker[w].i
    ELSE IF worker[w].pc = "loop" THEN 1..(worker[w].i - 1)
    ELSE {}

\* C3: the operations of one case are executed in creation order, so the
\* case's most recently created operation is the last one applied.
C3_CreationOrderPerCase ==
    \A w \in Workers : \A x, y \in Executed(w) :
        LET a == sync_operations[worker[w].operations[x]]
            b == sync_operations[worker[w].operations[y]] IN
        (x < y /\ a.case_id = b.case_id) => a.created_at <= b.created_at

\* C4: no operation is executed more than once, by later or overlapping
\* process_sync_queue calls.
C4_ExecutedAtMostOnce ==
    \A k \in 1..Len(executions) : executions[k] <= 1

PassDone == run_sync.pc = "source_loop" /\ run_sync.idx > 1
LastPass == run_sync.source_results[Len(run_sync.source_results)]

C7_ErrorCountStored ==
    PassDone =>
        /\ source_sync_metadata[LastPass.source_name] # NoRow
        /\ source_sync_metadata[LastPass.source_name].error_count = LastPass.stats.errors

\* ------------------------------------------------------------- scheduler

IsUpdateSource == update_run.pc = "source_loop" /\ update_run'.idx = update_run.idx + 1

PersistedByRun(source_name) ==
    \E k \in update_run.first_id..Len(schedule_recommendations) :
        schedule_recommendations[k].source_name = source_name

LastSaved(source_name) ==
    LET S == {k \in DOMAIN schedule_recommendations :
                 schedule_recommendations[k].source_name = source_name}
    IN schedule_recommendations[CHOOSE k \in S : \A j \in S : j <= k]

\* C11: get_current_schedules returns exactly one recommendation for every
\* source that has a row in schedule_recommendations, the one saved last for
\* it, and none for the other sources.
C11_OneCurrentPerSourceTheLast ==
    LET current == get_current_schedules(schedule_recommendations, TRUE) IN
    \A k \in DOMAIN sources :
        LET of_source == {i \in DOMAIN current : current[i].source_name = sources[k]} IN
        IF \E j \in DOMAIN schedule_recommendations :
                schedule_recommendations[j].source_name = sources[k]
        THEN /\ Cardinality(of_source) = 1
             /\ \A i \in of_source : current[i] = RecommendationOf(LastSaved(sources[k]))
        ELSE of_source = {}

\* ------------------------------------------------- collection step

\* C12: when the collection step has returned, the metrics history holds,
\* for every source a collection was attempted for, a sample recorded since
\* the attempt was submitted.
C12_AttemptFollowedBySample ==
    collection.pc = "returned" =>
        \A c \in collectors :
            \E k \in DOMAIN source_metrics_history :
                /\ source_metrics_history[k].source_name = c
                /\ source_metrics_history[k].timestamp >= collection.submitted_at

\* The step is blocked in as_completed: every future that is done was
\* yielded and a collector is still running.
WaitingForCollector ==
    /\ collection.pc = "as_completed"
    /\ collection.yielded = Len(collection.completed)
    /\ \E c \in collectors : collection.futures[c] = "running"

\* C20: the collection step is never held up by a collector for longer than
\* the per-task timeout: it does not wait for a running collector once more
\* than result_timeout seconds have passed since the tasks were submitted.
C20_NotBlockedBeyondTimeout ==
    WaitingForCollector => now - collection.submitted_at <= result_timeout

\* ------------------------------------------------- alert rate limit

\* The alerts created within the last hour
AlertsOfLastHour == {a \in alerts : a.created_at >= now - 3600}

\* C13: at every moment at most max_alerts_per_hour alerts were created
\* within the last rolling hour.
C13_AtMostMaxAlertsPerHour == Cardinality(AlertsOfLastHour) <= max_alerts_per_hour

\* ------------------------------------------------- staleness alerts

\* C14: a freshness check that finds the overall level critical or emergency
\* when the check before it found a lower level sends an alert.
C14_RiseToCriticalAlerted ==
    (/\ staleness.last_check # NoRow
     /\ staleness.last_check.level \in {"critical", "emergency"}
     /\ staleness.last_check.previous # "none"
     /\ LevelIndex(staleness.last_check.previous) < LevelIndex(staleness.last_check.level))
    => staleness.last_check.alert

\* ------------------------------------------------- alert notifications

\* The notification rows of an alert for a channel
NotificationRows(alert_id, channel) ==
    {n \in alert_notifications :
        n.alert_id = alert_id /\ n.notification_channel = channel}

\* create_alert is not running for the alert
NotifiedAlerts ==
    {a \in alerts : \A c \in AlertCallers :
        create_alert_arg[c] = NoRow \/ create_alert_arg[c].id # a.id}

C16_SimilarRecordsShareGroup ==
    dedup.pc = "deduplicated" =>
        \A i, j \in DOMAIN dedup.records :
            (i < j /\ Similar(dedup.records[i], dedup.records[j])) =>
                \E g \in DOMAIN dedup.duplicate_groups :
                    /\ \E k \in DOMAIN dedup.duplicate_groups[g] : dedup.duplicate_groups[g][k] = i
                    /\ \E k \in DOMAIN dedup.duplicate_groups[g] : dedup.duplicate_groups[g][k] = j

\* C17: detect_duplicates finds no group in what _deduplicate_records returns.
C17_DeduplicatedHasNoGroup ==
    dedup.pc = "deduplicated" => detect_duplicates(dedup.final_records) = <<>>

\* ------------------------------------------------- change analysis

\* The content of a record as the claim words it: its non-null fields other
\* than id, created_at, updated_at and last_sync, strings trimmed and
\* lower-cased.
NormalizedContent(record) ==
    {<<k, IF IsStr(record[k]) THEN lower(strip(record[k].v)) ELSE record[k]>> :
        k \in {f \in DOMAIN record : record[f] # None /\ f \notin HashExcluded}}

SameNormalizedContent ==
    /\ analysis.pc = "analyzed"
    /\ analysis.existing_record # None
    /\ NormalizedContent(analysis.source_record) = NormalizedContent(analysis.existing_record)

\* C18: for a fetched record and an existing record of identical normalized
\* content, analyze_record_changes returns skip with confidence 1.0 and
\* priority 5, and the operation queued for the record is a skip.
C18_IdenticalContentIsSkipped ==
    SameNormalizedContent =>
        /\ analysis.sync_record.operation = "skip"
        /\ analysis.sync_record.confidence = Conf(1000)
        /\ analysis.sync_record.priority = 5
        /\ \A id \in analysis.queued : sync_operations[id].operation = "skip"

\* C18, the case it is about: a refetch that differs from the stored row in
\* blanks and letter case only has been analyzed and queued.
C18_RefetchDifferingInCaseQueued ==
    /\ SameNormalizedContent
    /\ analysis.source_record # analysis.existing_record
    /\ analysis.queued # {}

\* What the claim's precedence names, read from the two records
StatusOf(record) == lower(strip(PyStr(Get(record, "status"))))
StatusChangedTo(words) ==
    /\ StatusOf(analysis.source_record) # StatusOf(analysis.existing_record)
    /\ StatusOf(analysis.source_record) \in words
FieldChanged(fields) ==
    \E f \in fields : Get(analysis.source_record, f) # Get(analysis.existing_record, f)

\* C19: an update's priority follows the precedence: status change to
\* resolved or deceased 1, status change to active 2, contact-field change
\* 2, location or coordinate change 3, anything else 4.
C19_FixedPrecedence ==
    (analysis.pc = "analyzed" /\ analysis.sync_record.operation = "update") =>
        analysis.sync_record.priority =
            IF StatusChangedTo({<<"r","e","s","o","l","v","e","d">>,
                                <<"d","e","c","e","a","s","e","d">>}) THEN 1
            ELSE IF StatusChangedTo({<<"a","c","t","i","v","e">>}) THEN 2
            ELSE IF FieldChanged({"phone", "email", "contact_info"}) THEN 2
            ELSE IF FieldChanged({"city", "state", "latitude", "longitude"}) THEN 3
            ELSE 4

\* ------------------------------------------------- validation

\* C21: batch_validate never aborts; it returns one result for every record
\* of the batch, a record on which cleaning or a rule raises included.
C21_OneResultPerRecord ==
    validation.pc # "collected" =>
        /\ validation.pc = "validated"
        /\ Len(validation.returned.results) = Len(validation.records)

\* ------------------------------------------------- upsert

\* C22: applying upsert_missing_person to a record again adds no row: the
\* first application reports inserted, every later one reports not inserted
\* and the same row, and the table holds one row per application key.
C22_UpsertIdempotent ==
    /\ \A i, j \in DOMAIN database.calls :
          (i < j /\ database.calls[i].record = database.calls[j].record) =>
              /\ ~database.calls[j].was_inserted
              /\ database.calls[j].record_id = database.calls[i].record_id
    /\ \A c \in DOMAIN database.calls :
          Cardinality({k \in DOMAIN database.missing_persons_enhanced :
              /\ database.missing_persons_enhanced[k].source_name
                     = TextAffinity(Get(database.calls[c].record, "source_name"))
              /\ database.missing_persons_enhanced[k].source_id
                     = TextAffinity(Get(database.calls[c].record, "source_id"))}) = 1

\* ------------------------------------------------- staleness levels

\* The level the claim gives an artifact: emergency when it is missing,
\* otherwise ok up to the warning threshold and else the highest threshold
\* its age exceeds.
ClaimedLevel(artifact, hours) ==
    IF artifact.status = "missing" THEN "emergency"
    ELSE LET age == CHOOSE a \in artifact.age : TRUE
             exceeded == {k \in 1..3 : age > hours[k] * 3600}
         IN IF exceeded = {} THEN "ok"
            ELSE LET highest == CHOOSE k \in exceeded : \A j \in exceeded : j <= k
                 IN levels[highest + 1]

\* C23: a check classifies the CSV file and the database file by their age
\* against their thresholds, a missing file being emergency, and reports as
\* overall level the higher of the two; a CSV file 30 hours old under the
\* thresholds 12/24/48 is critical.
C23_LevelsByAgeOverallIsMax ==
    /\ LevelAt(30 * 3600, <<12, 24, 48>>) = "critical"
    /\ staleness.last_check # NoRow =>
          LET csv == staleness.last_check.csv
              db == staleness.last_check.database
          IN
          /\ csv.level = ClaimedLevel(csv, <<warning_threshold_hours,
                                             critical_threshold_hours,
                                             emergency_threshold_hours>>)
          /\ db.level = ClaimedLevel(db, <<warning_threshold_hours + 6,
                                           critical_threshold_hours + 12,
                                           emergency_threshold_hours + 24>>)
          /\ staleness.last_check.level \in {csv.level, db.level}
          /\ LevelIndex(staleness.last_check.level) >= LevelIndex(csv.level)
          /\ LevelIndex(staleness.last_check.level) >= LevelIndex(db.level)

\* C23, the case it is about: a check found the CSV file below its warning
\* threshold and the database file above its critical threshold.
C23_DatabaseStalerThanCsv ==
    /\ staleness.last_check # NoRow
    /\ staleness.last_check.csv.level = "ok"
    /\ staleness.last_check.database.status = "exists"
    /\ staleness.last_check.database.level = "critical"
    /\ staleness.last_check.level = "critical"

\* The cooldown of a level, in seconds
CooldownOf(level) ==
    IF level = "emergency" THEN 2 * 3600
    ELSE IF level = "critical" THEN 6 * 3600
    ELSE 24 * 3600

\* C29: a check by a monitor object that sent an alert before, observing
\* the level of that alert again within the level's cooldown, sends no
\* alert.
C29_NoAlertWithinCooldown ==
    (/\ staleness.last_check # NoRow
     /\ staleness.last_check.level # "ok"
     /\ \E a \in staleness.last_check.sent_before :
           /\ a.level = staleness.last_check.level
           /\ staleness.last_check.time - a.time <= CooldownOf(a.level))
    => ~staleness.last_check.alert

\* ------------------------------------------------- deduplication result

\* The indices of a duplicate group
GroupMembers(group) == {group[k] : k \in DOMAIN group}

\* C24: of each duplicate group _deduplicate_records keeps exactly one
\* record, one of maximal completeness in the group, unchanged; it removes
\* the others and keeps every record that is in no group.
C24_MostCompleteOfGroupKept ==
    dedup.pc = "deduplicated" =>
        \E kept \in SUBSET DOMAIN dedup.records :
            /\ dedup.final_records = Without(dedup.records, DOMAIN dedup.records \ kept, 1)
            /\ \A g \in DOMAIN dedup.duplicate_groups :
                  LET members == GroupMembers(dedup.duplicate_groups[g]) IN
                  /\ Cardinality(kept \cap members) = 1
                  /\ \A i \in kept \cap members : \A j \in members :
                        calculate_record_completeness(dedup.records[i])
                            >= calculate_record_completeness(dedup.records[j])
            /\ \A i \in DOMAIN dedup.records :
                  (\A g \in DOMAIN dedup.duplicate_groups :
                       i \notin GroupMembers(dedup.duplicate_groups[g])) => i \in kept

\* C24, the case it is about: a batch with a group whose first record is
\* less complete than a later one, and a record outside the group.
C24_LaterRecordOfGroupKept ==
    /\ dedup.pc = "deduplicated"
    /\ Len(dedup.final_records) = Len(dedup.records) - 1
    /\ \E g \in DOMAIN dedup.duplicate_groups :
          LET group == dedup.duplicate_groups[g] IN
          /\ Len(group) = 2
          /\ calculate_record_completeness(dedup.records[group[1]])
                 < calculate_record_completeness(dedup.records[group[2]])
          /\ \E k \in DOMAIN dedup.final_records :
                 dedup.final_records[k] = dedup.records[group[2]]
    /\ \E i \in DOMAIN dedup.records :
          \A g \in DOMAIN dedup.duplicate_groups :
              i \notin GroupMembers(dedup.duplicate_groups[g])

\* ------------------------------------------------------- queue selection

\* The operations the claim has a call select from: pending, priority at
\* most the threshold, confidence at least the minimum
Selectable(rows) ==
    {k \in 1..Len(rows) : /\ rows[k].processed_at = NULL
                          /\ rows[k].priority <= priority_threshold
                          /\ rows[k].confidence >= min_confidence_threshold}

\* Row a comes strictly before row b in (priority, created_at) order
StrictlyBefore(rows, a, b) ==
    \/ rows[a].priority < rows[b].priority
    \/ rows[a].priority = rows[b].priority /\ rows[a].created_at < rows[b].created_at

C26_TierSelectedByFinalScore ==
    (recommendation # NoRow /\ source_metrics.activity_pattern \in ActivityPattern)
    => /\ recommendation.update_frequency
            = AdaptiveRecommendation(source_metrics, now).update_frequency
       /\ "error" \notin DOMAIN recommendation.adaptive_factors

\* -------------------------------------------------------- queue liveness

\* C27: every operation that run_incremental_sync has queued, insert, update
\* or skip, is eventually marked processed while process_sync_queue keeps
\* being called.
C27_QueuedEventuallyProcessed ==
    \A k \in 1..MaxOps :
        (Len(sync_operations) >= k)
        ~> (Len(sync_operations) >= k /\ sync_operations[k].processed_at # NULL)

\* The same for the operations that the SELECT of process_sync_queue admits
SelectableEventuallyProcessed ==
    \A k \in 1..MaxOps :
        (Len(sync_operations) >= k /\ sync_operations[k].priority <= priority_threshold)
        ~> (Len(sync_operations) >= k /\ sync_operations[k].processed_at # NULL)

\* ---------------------------------------------------- monitoring threads

\* The loops that have found monitoring_active true since the last thread
\* was started
LoopsRunning ==
    {th \in DOMAIN monitoring.threads :
        IsAlive(th) /\ monitoring.threads[th].tested = Len(monitoring.threads)}

\* C28: after any sequence of start_monitoring and stop_monitoring calls at
\* most one background loop is running monitoring cycles: once a newer loop
\* has been started, no earlier loop goes on to another cycle.
C28_AtMostOneLoopRunning == Cardinality(LoopsRunning) <= 1

\* ------------------------------------------------------- failed fetches

\* C30: a pass whose fetch failed does not advance the source's
\* last_sync_time: after it the source has the last_sync_time it had before,
\* so that the next cycle asks for the changes since the same point.
C30_FailedFetchKeepsWatermark ==
    [][(IsSourcePass /\ ~run_sync'.fetched)
       => LET source_name == run_sync.sources[run_sync.idx] IN
          get_last_sync_time(source_sync_metadata', source_name)
             = get_last_sync_time(source_sync_metadata, source_name)]_vars

====
